---- MODULE Spec2Model ----
(***************************************************************************)
(* Model of crypto-scanner-ha (crypto_scanner_pro/rootfs/app): the Flask   *)
(* application app.py, which builds four scanners and runs each in a       *)
(* daemon thread, and the scanners' cooldown stores.                       *)
(*                                                                         *)
(* Slices of the program are modelled, each with its own specification    *)
(* over the variables it uses:                                             *)
(*   SpecCooldown  one scanner's cooldown store used sequentially          *)
(*                 (is_in_cooldown, mark_alerted, _load/_save_cooldown)    *)
(*   SpecScan      one strategy: its timed thread, a manual scan request,  *)
(*                 update_config rebuilding the scanner, the store, disk   *)
(*   SpecLoop      one strategy's timed loop alone (FairLoop: fairness)    *)
(*   Spec          the application: load_config/init_scanners/             *)
(*                 start_scanners, update_config, the four run_scanner     *)
(*                 threads and manual_scan requests                        *)
(*                                                                         *)
(* The clock is counted in hours; a datetime is the number of hours since  *)
(* day 0, 00:00.                                                           *)
(***************************************************************************)
EXTENDS Integers, Sequences, FiniteSets, TLC

\* ------------------------------------------------------------------ bounds
\* Hour at which the modelled run ends (the clock stops there).
MaxTime == 24
\* Calls of update_config within one run.
MaxRebuilds == 1
\* The dispatch history counts the alerts of a (symbol, day) up to this.
MaxCount == 2

\* Cycles of the timed thread and manual scans within one run.
MaxTimed == 2
MaxManual == 1

\* Symbols of one cycle that pass the strategy's predicate.
MaxHits == 2

\* The tickers of one response.
MaxTickers == 3

\* The last minute of the modelled run of the timed cycle.
MaxClock == 8

\* The pairs one timed cycle evaluates.
MaxPairs == 2

\* Hours of a calendar day: datetime.replace(hour=0, minute=0, ...) in
\* EMAScanner.is_in_cooldown truncates a datetime to a multiple of it.
HoursPerDay == 24

\* The first hour of the modelled run: late in day 0, so that a midnight
\* falls inside the run.
StartHours == {22}

\* The first hour of a strategy's run: the last hour before the run ends
\* (23:00 of day 0), so that the run crosses one midnight.
ScanStartHours == {MaxTime - 1}

Symbols == {"AUSDT", "BUSDT"}

\* The symbols the market offers to a scan.
ScanSymbols == {"AUSDT"}

\* cooldown_hours a configuration may hold (DEFAULT_CONFIG: 2).
CooldownChoices == {1, 2}

KindNames == {"ema", "flip", "volume", "ath_atl"}

\* The cooldown dictionaries of a scanner class, by the name used here for
\* each: EMAScanner.last_alerts, DailyFlipScanner.last_alerts,
\* VolumeScanner.last_gainers/last_losers, ATHATLScanner.last_ath_alerts/
\* last_atl_alerts. Each has its own file.
Subs(k) ==
    CASE k = "ema" -> {"ema"}
      [] k = "flip" -> {"flip"}
      [] k = "volume" -> {"gainer", "loser"}
      [] k = "ath_atl" -> {"ath", "atl"}

AllSubs == {"ema", "flip", "gainer", "loser", "ath", "atl"}

\* The keys (dictionary, symbol) the store of a scanner class is exercised
\* with: two symbols where the class has one dictionary, one symbol in each
\* dictionary where it has two.
KeysOf(k) ==
    IF k \in {"ema", "flip"}
    THEN Subs(k) \X Symbols
    ELSE Subs(k) \X {"AUSDT"}

\* ---------------------------------------------------------------- datetime
\* datetime.replace(hour=0, minute=0, second=0, microsecond=0)
replace_midnight(t) == t - (t % HoursPerDay)

\* The mutant of isoformat used by the check of C12: the date alone.
isoformat_date(t) == <<t \div HoursPerDay, 0>>

\* datetime.isoformat(): the date and the time of day, as text.
isoformat(t) == <<t \div HoursPerDay, t % HoursPerDay>>

\* datetime.fromisoformat(): the text parsed back.
fromisoformat(s) == s[1] * HoursPerDay + s[2]

\* datetime.fromisoformat() raises ValueError on a text that is not a date
\* and time: here, one whose hour is not in 0..23.
fromisoformat_raises(s) == ~(s[1] >= 0 /\ s[2] \in 0..(HoursPerDay - 1))

\* ------------------------------------------------------------ dictionaries
EmptyDict == [x \in {} |-> 0]

DictSet(d, k, v) == [x \in DOMAIN d \cup {k} |-> IF x = k THEN v ELSE d[x]]

\* ------------------------------------------------------------ cooldown file
\* A cooldown file: missing, holding a JSON object (symbol -> ISO text), or
\* holding text json.load cannot parse.
MissingFile == [state |-> "missing", data |-> EmptyDict]

\* A file json.load cannot parse (or whose JSON value is not an object).
CorruptFile == [state |-> "corrupt", data |-> EmptyDict]

\* The mutant of _load_cooldown used by the check of C11: entries whose
\* timestamp cannot be parsed are skipped and the others kept.
_load_cooldown_lenient(f) ==
    IF f.state = "ok"
    THEN [k \in {x \in DOMAIN f.data : ~fromisoformat_raises(f.data[x])} |->
             fromisoformat(f.data[k])]
    ELSE EmptyDict

\* _load_cooldown: the file's mapping with every value parsed; {} when the
\* file is missing, when json.load raises, or when fromisoformat raises on
\* any value (the except block, then "return {}").
_load_cooldown(f) ==
    IF f.state = "ok" /\ \A k \in DOMAIN f.data : ~fromisoformat_raises(f.data[k])
    THEN [k \in DOMAIN f.data |-> fromisoformat(f.data[k])]
    ELSE EmptyDict

\* _save_cooldown, first half: data = {k: v.isoformat() for k, v in ...}
_save_cooldown_data(alerts_dict) ==
    [k \in DOMAIN alerts_dict |-> isoformat(alerts_dict[k])]

\* What open(path, 'w') + json.dump can do: write the file; fail in open()
\* (the file is left as it was); fail after open() truncated the file.
WriteOutcomes == {"ok", "denied", "partial"}

\* _save_cooldown, second half: the file after the write attempt.
_save_cooldown_write(f, data, outcome) ==
    CASE outcome = "ok" -> [state |-> "ok", data |-> data]
      [] outcome = "denied" -> f
      [] outcome = "partial" -> CorruptFile

\* ---------------------------------------------------------- is_in_cooldown
\* The mutants of is_in_cooldown used by the checks of C3 and C4.
Flip_is_in_cooldown_inclusive(last_alerts, symbol, t, cooldown_hours) ==
    /\ symbol \in DOMAIN last_alerts
    /\ (t - last_alerts[symbol]) <= cooldown_hours

EMA_is_in_cooldown_rolling(last_alerts, symbol, t) ==
    /\ symbol \in DOMAIN last_alerts
    /\ (t - last_alerts[symbol]) < HoursPerDay

\* EMAScanner.is_in_cooldown
EMAScanner_is_in_cooldown(last_alerts, symbol, t) ==
    LET current_candle_start == replace_midnight(t)
    IN  IF symbol \notin DOMAIN last_alerts
        THEN FALSE
        ELSE LET last_alert_candle_start == replace_midnight(last_alerts[symbol])
             IN  IF last_alert_candle_start < current_candle_start
                 THEN FALSE
                 ELSE TRUE

\* The mutant of is_in_cooldown used by the check of C29: the window is an
\* hour short.
Flip_is_in_cooldown_short(last_alerts, symbol, t, cooldown_hours) ==
    /\ symbol \in DOMAIN last_alerts
    /\ (t - last_alerts[symbol]) < cooldown_hours - 1

\* DailyFlipScanner.is_in_cooldown
DailyFlipScanner_is_in_cooldown(last_alerts, symbol, t, cooldown_hours) ==
    IF symbol \notin DOMAIN last_alerts
    THEN FALSE
    ELSE (t - last_alerts[symbol]) < cooldown_hours

\* VolumeScanner.is_in_cooldown
VolumeScanner_is_in_cooldown(dicts, symbol, alert_type, t, cooldown_hours) ==
    LET alerts_dict == IF alert_type = "gainer" THEN dicts["gainer"] ELSE dicts["loser"]
    IN  IF symbol \notin DOMAIN alerts_dict
        THEN FALSE
        ELSE (t - alerts_dict[symbol]) < cooldown_hours

\* ATHATLScanner.is_in_cooldown
ATHATLScanner_is_in_cooldown(dicts, symbol, alert_type, t, cooldown_hours) ==
    LET alerts_dict == IF alert_type = "ath" THEN dicts["ath"] ELSE dicts["atl"]
    IN  IF symbol \notin DOMAIN alerts_dict
        THEN FALSE
        ELSE (t - alerts_dict[symbol]) < cooldown_hours

\* is_in_cooldown of the scanner class k, on the scanner's dictionaries.
is_in_cooldown(k, dicts, sub, symbol, t, cooldown_hours) ==
    CASE k = "ema" -> EMAScanner_is_in_cooldown(dicts["ema"], symbol, t)
      [] k = "flip" -> DailyFlipScanner_is_in_cooldown(dicts["flip"], symbol, t, cooldown_hours)
      [] k = "volume" -> VolumeScanner_is_in_cooldown(dicts, symbol, sub, t, cooldown_hours)
      [] k = "ath_atl" -> ATHATLScanner_is_in_cooldown(dicts, symbol, sub, t, cooldown_hours)

\* The mutant of mark_alerted_set used by the check of C13: nothing is
\* recorded.
mark_alerted_skip(dicts, sub, symbol, t) == dicts

\* The mutant of mark_alerted_set used by the check of C30: the symbol is
\* recorded in every dictionary of the scanner.
mark_alerted_all(dicts, sub, symbol, t) ==
    [s \in DOMAIN dicts |-> DictSet(dicts[s], symbol, t)]

\* mark_alerted, first statement: self.last_alerts[symbol] = datetime.now()
mark_alerted_set(dicts, sub, symbol, t) ==
    [dicts EXCEPT ![sub] = DictSet(@, symbol, t)]

\* --------------------------------------------------------------- variables
VARIABLES
    kind,       \* the scanner class of the slice
    now,        \* the clock, in hours
    file,       \* the cooldown files, by dictionary name
    ocfg,       \* scanner objects: constructor parameters, by object id
    maps,       \* scanner objects: the cooldown dictionaries, by object id
    chk,        \* the last is_in_cooldown call: arguments, time and answer
    recorded,   \* history: the instant of the last alert the process knows, per key
    durable,    \* history: the instants a restart would hydrate, per key
    hydrated,   \* history: keys whose in-memory entry was read from the file
    reg,        \* scanners[name]: the id of the scanner object in the registry
    cfgSect,    \* config[name]: "on" / "off" (its 'enabled'), "bad" (no mapping)
    th,         \* the threads running scan(): position and locals
    sent,       \* history: alerts handed to send_alert, per (symbol, day)
    unsaved,    \* history: keys whose last record met a failed write
    nRebuild,   \* update_config calls so far
    left,       \* scan() calls each thread may still start (-1: no limit)
    updIdle,    \* history: the last rebuild found the timed thread between cycles
    mainpc,     \* __main__: "init", "start", "serving", "crashed" ("off": not modelled)
    config,     \* the global config: the value of each strategy's section
    scanners,   \* the global scanners: the object registered for each strategy
    scanner_threads, \* the run_scanner threads: position and captured scanner
    nUpd,       \* update_config requests so far
    resp,       \* the status of the last update_config response
    initErr,    \* init_scanners ended in its except block, the last time it ran
    snapshot,   \* universe selection: result['list'] of the tickers response
    top_n,      \* universe selection: the length of the two slices
    selpc,      \* universe selection: position in scan()
    all_pairs,  \* universe selection: the local all_pairs
    top_gainers, \* universe selection: the local top_10_gainers / top_20_gainers
    top_losers, \* universe selection: the local top_10_losers / top_20_losers
    clock,      \* timed cycle: the clock, in minutes
    interval,   \* timed cycle: run_scanner's interval_minutes
    phase,      \* timed cycle: where run_scanner and scan() are
    pending,    \* timed cycle: the pairs of the loop not yet evaluated
    results,    \* timed cycle: the local found / flips_found
    wakeAt,     \* timed cycle: the instant time.sleep returns
    cyc,        \* timed cycle, history: instants and hand-overs of the cycle
    evpc,       \* evaluators: which evaluator has run ("input": none yet)
    evIn,       \* evaluators: the values the loop body reads
    evOut,      \* evaluators: what the loop body appended
    emapc,      \* EMA: which function has run ("input": none yet)
    emaIn,      \* EMA: the closes (and the period) the function is given
    emaOut,     \* EMA: the locals of the functions and what they returned
    bpc,        \* batch: position in scan()
    bIn,        \* batch: the strategy, the tickers of the response, the slice length
    bLoc,       \* batch: the locals of scan()
    apc,        \* alerts: position in scan()
    aIn,        \* alerts: the strategy, its parameters, the pairs and what fails
    aLoc        \* alerts: the locals of scan(), the dictionaries and the files

storeVars == <<kind, now, file, ocfg, maps, chk, recorded, durable, hydrated>>

scanVars == <<reg, cfgSect, th, sent, unsaved, nRebuild, left, updIdle>>

appVars == <<mainpc, config, scanners, scanner_threads, nUpd, resp, initErr>>

selVars == <<snapshot, top_n, selpc, all_pairs, top_gainers, top_losers>>

cycleVars == <<clock, interval, phase, pending, results, wakeAt, cyc>>

evalVars == <<evpc, evIn, evOut>>

emaVars == <<emapc, emaIn, emaOut>>

batchVars == <<bpc, bIn, bLoc>>

alertVars == <<apc, aIn, aLoc>>

pureVars == <<evalVars, emaVars, batchVars, alertVars>>

auxVars == <<selVars, cycleVars, pureVars>>

vars == <<storeVars, scanVars, appVars, auxVars>>

\* The universe selection is not part of the slice.
NoSel ==
    /\ snapshot = <<>>
    /\ top_n = 0
    /\ selpc = "off"
    /\ all_pairs = <<>>
    /\ top_gainers = <<>>
    /\ top_losers = <<>>

\* The timing of the cycle is not part of the slice.
NoCycle ==
    /\ clock = 0
    /\ interval = 0
    /\ phase = "off"
    /\ pending = <<>>
    /\ results = <<>>
    /\ wakeAt = 0
    /\ cyc = <<>>

\* The evaluators are not part of the slice.
NoEval ==
    /\ evpc = "off"
    /\ evIn = <<>>
    /\ evOut = <<>>

\* The EMA functions are not part of the slice.
NoEma ==
    /\ emapc = "off"
    /\ emaIn = <<>>
    /\ emaOut = <<>>

\* The batch of one scan() is not part of the slice.
NoBatch ==
    /\ bpc = "off"
    /\ bIn = <<>>
    /\ bLoc = <<>>

NoAlert ==
    /\ apc = "off"
    /\ aIn = <<>>
    /\ aLoc = <<>>

NoPure == NoEval /\ NoEma /\ NoBatch /\ NoAlert

\* The application level is not part of the slice.
NoApp ==
    /\ mainpc = "off"
    /\ config = <<>>
    /\ scanners = <<>>
    /\ scanner_threads = <<>>
    /\ nUpd = 0
    /\ resp = "none"
    /\ initErr = FALSE
    /\ NoSel
    /\ NoCycle
    /\ NoPure

NoCheck == [sub |-> "", sym |-> "", res |-> FALSE]

\* The cooldown store and the scan threads are not part of the slice.
NoStore ==
    /\ kind = "none"
    /\ now = 0
    /\ file = <<>>
    /\ ocfg = <<>>
    /\ maps = <<>>
    /\ chk = NoCheck
    /\ recorded = <<>>
    /\ durable = <<>>
    /\ hydrated = {}

NoScan ==
    /\ reg = 0
    /\ cfgSect = "none"
    /\ th = <<>>
    /\ sent = <<>>
    /\ unsaved = {}
    /\ nRebuild = 0
    /\ left = <<>>
    /\ updIdle = FALSE

\* The scanner object has just been constructed: no call was made on it yet.
Constructed == [sub |-> "", sym |-> "__init__", res |-> FALSE]

\* The cooldown files a process can find at startup, each with the mapping
\* it stands for: no file; a file that is not JSON; a file written by an
\* earlier run, with an alert one hour before the start; the same file with
\* one more entry whose timestamp text is not a timestamp.
StartFiles ==
    {<<MissingFile, EmptyDict>>,
     <<CorruptFile, EmptyDict>>,
     <<[state |-> "ok", data |-> [k \in {"AUSDT"} |-> <<0, 21>>]],
       [k \in {"AUSDT"} |-> 21]>>,
     <<[state |-> "ok",
        data |-> [k \in {"AUSDT", "BUSDT"} |->
                     IF k = "AUSDT" THEN <<0, 21>> ELSE <<0, 24>>]],
       EmptyDict>>}

\* A scanner object's constructor parameters.
DefaultObjCfg(c) == [enabled |-> TRUE, cooldown_hours |-> c, max_coins |-> MaxHits]

\* Scanner.__init__: every dictionary is loaded from its file.
NewDicts(k, f) == [s \in Subs(k) |-> _load_cooldown(f[s])]

\* ============================================================ SpecCooldown
\* One scanner object used by one caller: the store's operations one at a
\* time, the clock, and restarts of the process.

InitCooldown ==
    /\ kind \in KindNames
    /\ now \in StartHours
    /\ \E start \in [Subs(kind) -> StartFiles] :
         /\ file = [s \in Subs(kind) |-> start[s][1]]
         /\ durable = [s \in Subs(kind) |-> start[s][2]]
    /\ \E c \in CooldownChoices : ocfg = [o \in {1} |-> DefaultObjCfg(c)]
    /\ maps = [o \in {1} |-> NewDicts(kind, file)]
    /\ chk = Constructed
    /\ recorded = durable
    /\ hydrated = {p \in KeysOf(kind) : p[2] \in DOMAIN durable[p[1]]}
    /\ reg = 1
    /\ cfgSect = "on"
    /\ th = <<>>
    /\ sent = <<>>
    /\ unsaved = {}
    /\ nRebuild = 0
    /\ left = <<>>
    /\ updIdle = FALSE
    /\ NoApp

\* time passes
Tick ==
    /\ now < MaxTime
    /\ now' = now + 1
    /\ chk' = NoCheck
    /\ UNCHANGED <<kind, file, ocfg, maps, recorded, durable, hydrated>>
    /\ UNCHANGED <<scanVars, appVars, auxVars>>

\* mark_alerted(symbol[, alert_type]) run to its end by the only caller.
Record(sub, symbol) ==
    /\ <<sub, symbol>> \in KeysOf(kind)
    /\ \E outcome \in WriteOutcomes :
        LET dicts == mark_alerted_set(maps[1], sub, symbol, now)
            data == _save_cooldown_data(dicts[sub])
        IN  /\ maps' = [maps EXCEPT ![1] = dicts]
            /\ file' = [file EXCEPT ![sub] = _save_cooldown_write(@, data, outcome)]
            /\ recorded' = [recorded EXCEPT ![sub] = DictSet(@, symbol, now)]
            /\ durable' = [durable EXCEPT ![sub] =
                              CASE outcome = "ok" -> recorded'[sub]
                                [] outcome = "denied" -> @
                                [] outcome = "partial" -> EmptyDict]
    /\ hydrated' = hydrated \ {<<sub, symbol>>}
    /\ chk' = NoCheck
    /\ UNCHANGED <<kind, now, ocfg>>
    /\ UNCHANGED <<scanVars, appVars, auxVars>>

\* is_in_cooldown(symbol[, alert_type])
Check(sub, symbol) ==
    /\ <<sub, symbol>> \in KeysOf(kind)
    /\ chk' = [sub |-> sub, sym |-> symbol,
               res |-> is_in_cooldown(kind, maps[1], sub, symbol, now,
                                      ocfg[1].cooldown_hours)]
    /\ UNCHANGED <<kind, now, file, ocfg, maps, recorded, durable, hydrated>>
    /\ UNCHANGED <<scanVars, appVars, auxVars>>

\* The process ends and is started again: the new scanner object hydrates
\* its dictionaries from the files.
Restart ==
    /\ maps' = [maps EXCEPT ![1] = NewDicts(kind, file)]
    /\ recorded' = durable
    /\ hydrated' = {p \in KeysOf(kind) : p[2] \in DOMAIN durable[p[1]]}
    /\ chk' = Constructed
    /\ UNCHANGED <<kind, now, file, ocfg, durable>>
    /\ UNCHANGED <<scanVars, appVars, auxVars>>

NextCooldown ==
    \/ Tick
    \/ \E s \in AllSubs, k \in Symbols : Record(s, k)
    \/ \E s \in AllSubs, k \in Symbols : Check(s, k)
    \/ Restart

SpecCooldown == InitCooldown /\ [][NextCooldown]_vars

\* The last is_in_cooldown call was made in this state, for a key of which
\* the store knows a last alert / knows none.
Checked == chk.sym \in Symbols

CheckedKnown == Checked /\ chk.sym \in DOMAIN recorded[chk.sub]

CheckedLast == recorded[chk.sub][chk.sym]

\* C3: rolling-window suppression. For the scanners with an hours-based
\* cooldown, is_in_cooldown(key) answers true exactly when the store knows a
\* last alert for the key and now - lastAlert < cooldown_hours: an alert
\* recorded at T is suppressed before T + cooldown_hours and not at
\* T + cooldown_hours or later, also when the entry was hydrated from the
\* file.
C3_RollingWindow ==
    (kind \in {"flip", "volume", "ath_atl"} /\ Checked) =>
        (chk.res <=> (CheckedKnown /\ now - CheckedLast < ocfg[1].cooldown_hours))

\* C3's case: an entry hydrated from the file and exactly cooldown_hours old
\* is not suppressed.
C3_Witness ==
    /\ kind \in {"flip", "volume", "ath_atl"}
    /\ CheckedKnown
    /\ <<chk.sub, chk.sym>> \in hydrated
    /\ now - CheckedLast = ocfg[1].cooldown_hours
    /\ ~chk.res

\* C4: period-aligned suppression. EMAScanner.is_in_cooldown(symbol) answers
\* true exactly while the last alert of the symbol lies in the same UTC
\* calendar day as now, whatever the time elapsed since.
C4_PeriodAligned ==
    (kind = "ema" /\ Checked) =>
        (chk.res <=> (CheckedKnown /\ CheckedLast \div HoursPerDay = now \div HoursPerDay))

\* C4's case: a check one hour after the alert, past midnight, is not
\* suppressed.
C4_Witness ==
    /\ kind = "ema"
    /\ CheckedKnown
    /\ now = CheckedLast + 1
    /\ ~chk.res

\* C4's other case: a check one hour after the alert, in the same day, is
\* suppressed.
C4_SameDaySuppressed ==
    /\ kind = "ema"
    /\ CheckedKnown
    /\ now = CheckedLast + 1
    /\ chk.res
\* ================================================================ SpecScan
\* One strategy (EMAScanner or DailyFlipScanner): the run_scanner thread
\* started by start_scanners, a manual_scan request, and update_config, over
\* the scanner objects, the cooldown file and the clock. The thread keeps the
\* scanner object it was started with; manual_scan takes the object in the
\* registry.

\* C11: hydration at startup. Right after a scanner object is constructed,
\* each of its in-memory dictionaries equals the mapping its cooldown file
\* stands for; a file that is missing, is not JSON or holds one timestamp
\* that cannot be parsed gives the empty dictionary, and the construction
\* completes.
C11_HydratedAtStartup ==
    chk = Constructed =>
        \A s \in Subs(kind) :
            /\ maps[1][s] = durable[s]
            /\ (file[s].state # "ok" => maps[1][s] = EmptyDict)
            /\ ((\E k \in DOMAIN file[s].data : fromisoformat_raises(file[s].data[k]))
                   => maps[1][s] = EmptyDict)

\* C11's case: an object constructed over a file with a good entry and an
\* entry whose timestamp cannot be parsed starts with an empty dictionary.
C11_Witness ==
    /\ chk = Constructed
    /\ \E s \in Subs(kind) :
         /\ file[s].state = "ok"
         /\ \E k \in DOMAIN file[s].data : fromisoformat_raises(file[s].data[k])
         /\ \E k \in DOMAIN file[s].data : ~fromisoformat_raises(file[s].data[k])
         /\ maps[1][s] = EmptyDict

\* C12: save/load round trip. Whatever _save_cooldown wrote, _load_cooldown
\* reads back as the dictionary that was saved, and every entry an object
\* hydrated carries the time at which the alert was recorded.
C12_RoundTrip ==
    /\ \A s \in Subs(kind) :
         file[s].state = "ok" => _load_cooldown(file[s]) = durable[s]
    /\ \A p \in hydrated :
         /\ p[2] \in DOMAIN maps[1][p[1]]
         /\ maps[1][p[1]][p[2]] = recorded[p[1]][p[2]]

\* C12's case: an alert recorded in this run, saved, read back by the next
\* process and found in cooldown there.
C12_Witness ==
    /\ Checked
    /\ <<chk.sub, chk.sym>> \in hydrated
    /\ CheckedLast \in StartHours
    /\ chk.res

\* The entry of a key in the dictionaries of a scanner object (none: -1).
Entry(dicts, p) ==
    IF p[2] \in DOMAIN dicts[p[1]] THEN dicts[p[1]][p[2]] ELSE -1

\* The answer of is_in_cooldown for a key, on given dictionaries.
Suppressed(dicts, p) ==
    is_in_cooldown(kind, dicts, p[1], p[2], now, ocfg[1].cooldown_hours)

\* C30: mark_alerted on a key sets the entry of that key to now and leaves
\* the entry and the is_in_cooldown answer of every other key (another
\* symbol, the other dictionary of the scanner) as they were; a dictionary
\* holds one entry per symbol.
C30_KeysIndependent ==
    [][(chk' = NoCheck /\ now' = now) =>
         \E key \in KeysOf(kind) :
            /\ Entry(maps'[1], key) = now
            /\ \A p \in KeysOf(kind) \ {key} :
                 /\ Entry(maps'[1], p) = Entry(maps[1], p)
                 /\ Suppressed(maps'[1], p) = Suppressed(maps[1], p)
            /\ \A s \in Subs(kind) : DOMAIN maps'[1][s] \subseteq Symbols]_vars

\* C30's case: an ATH record of a symbol made now stands next to the older
\* ATL entry of the same symbol, which was not touched.
C30_Witness ==
    /\ kind = "ath_atl"
    /\ chk = NoCheck
    /\ Entry(maps[1], <<"ath", "AUSDT">>) = now
    /\ Entry(maps[1], <<"atl", "AUSDT">>) \in 0..(now - 1)
    /\ Entry(maps[1], <<"ath", "BUSDT">>) = -1

Threads == {"timed", "manual"}

\* Where scan() returns to: run_scanner's time.sleep, or the HTTP response.
Home(t) == IF t = "timed" THEN "sleep" ELSE "idle"

\* A thread's position in scan() and its locals; why: what made scan() leave
\* its normal path, or what send_alert did ("" while nothing did).
Local(p, o) ==
    [pc |-> p, obj |-> o, found |-> <<>>, j |-> 0, snap |-> EmptyDict, why |-> ""]

\* The dictionary name of the one-dictionary scanner classes.
TheSub == IF kind = "ema" THEN "ema" ELSE "flip"

\* The symbols of pairs_to_analyze that pass the predicate, in order; the
\* same symbol is there twice when top gainers and top losers overlap.
HitSeqs == UNION {[1..n -> ScanSymbols] : n \in 0..MaxHits}

Min(a, b) == IF a < b THEN a ELSE b

\* found = found[:self.max_coins_per_alert] (EMAScanner.scan); the
\* DailyFlipScanner stores max_coins and does not apply it.
Cap(k, found, cfg) ==
    IF k = "ema" THEN SubSeq(found, 1, Min(Len(found), cfg.max_coins))
    ELSE found

\* run_scanner after its except block: the loop goes on to time.sleep. (The
\* mutant lets the exception end the thread.)
run_scanner_reraise == "dead"

run_scanner_after_error == "sleep"

\* The state after load_config, init_scanners and start_scanners, for one
\* strategy whose section is a mapping: start_scanners starts the thread
\* "if scanner and config[name]['enabled']".
InitStrategy ==
    /\ kind \in {"ema", "flip"}
    /\ now \in ScanStartHours
    /\ file = [s \in Subs(kind) |-> MissingFile]
    /\ cfgSect \in {"on", "off"}
    /\ \E c \in CooldownChoices :
         ocfg = [o \in {1} |-> [enabled |-> cfgSect = "on", cooldown_hours |-> c,
                                max_coins |-> MaxHits]]
    /\ maps = [o \in {1} |-> NewDicts(kind, file)]
    /\ chk = NoCheck
    /\ recorded = [s \in Subs(kind) |-> EmptyDict]
    /\ durable = [s \in Subs(kind) |-> EmptyDict]
    /\ hydrated = {}
    /\ reg = 1
    /\ th = [t \in Threads |->
                IF t = "manual" THEN Local("idle", 0)
                ELSE IF cfgSect = "on" THEN Local("check", 1)
                ELSE Local("none", 0)]
    /\ sent = EmptyDict
    /\ unsaved = {}
    /\ nRebuild = 0
    /\ updIdle = FALSE
    /\ NoApp

InitScan ==
    /\ InitStrategy
    /\ left = [t \in Threads |-> IF t = "timed" THEN MaxTimed ELSE MaxManual]

\* run_scanner, top of the loop: config.get(name, {}).get('enabled', True),
\* then scanner.scan() up to its "if not self.enabled: return []".
TimedCheck ==
    /\ th["timed"].pc = "check"
    /\ left["timed"] # 0
    /\ left' = [left EXCEPT !["timed"] = IF @ > 0 THEN @ - 1 ELSE @]
    /\ th' = [th EXCEPT !["timed"].pc =
                 CASE cfgSect = "bad" -> "except_run"
                   [] cfgSect = "off" -> "sleep"
                   [] cfgSect = "on" ->
                        IF ocfg[th["timed"].obj].enabled THEN "fetch" ELSE "sleep"]
    /\ UNCHANGED <<storeVars, reg, cfgSect, sent, unsaved, nRebuild, updIdle, appVars, auxVars>>

\* manual_scan: scanners[scanner_name].scan() up to "if not self.enabled".
ManualStart ==
    /\ th["manual"].pc = "idle"
    /\ left["manual"] # 0
    /\ left' = [left EXCEPT !["manual"] = IF @ > 0 THEN @ - 1 ELSE @]
    /\ th' = [th EXCEPT !["manual"] =
                 IF ocfg[reg].enabled THEN Local("fetch", reg)
                 ELSE Local("idle", 0)]
    /\ UNCHANGED <<storeVars, reg, cfgSect, sent, unsaved, nRebuild, updIdle, appVars, auxVars>>

\* What fails the request of the tickers: requests.get raises (connection
\* error, timeout after 10 s) or response.json() raises.
FetchErrors == {"exception", "timeout"}

\* The mutant of empty_universe_exit used by the check of C19: the
\* exception leaves scan().
empty_universe_raises(k) == "except_run"

\* scan() when no pair passes the filter: EMAScanner evaluates
\* top_10_gainers[0] on the empty list and lands in its except block; the
\* DailyFlipScanner guards the same line with "if top_20_gainers:", runs its
\* loop over nothing and returns the empty list.
empty_universe_exit(k) == IF k = "ema" THEN "except_scan" ELSE "return"

\* The mutant of fetch_failed_exit used by the check of C20: the exception
\* ends the thread.
fetch_failed_uncaught == "dead"

\* scan() when the request of the tickers raises: the except block.
fetch_failed_exit == "except_scan"

\* scan(), from requests.get of the tickers to "if found:". The request
\* raises (the except block of scan); or its retCode is not 0 (return []); or
\* no pair passes the filter; or the pairs are analysed: a symbol passing the
\* predicate is appended unless is_in_cooldown, and the list is capped.
Analyze(t) ==
    /\ th[t].pc = "fetch"
    /\ \/ \E e \in FetchErrors :
            th' = [th EXCEPT ![t].pc = fetch_failed_exit, ![t].why = e]
       \/ th' = [th EXCEPT ![t].pc = "return", ![t].why = "retCode"]
       \/ th' = [th EXCEPT ![t].pc = empty_universe_exit(kind), ![t].why = "empty"]
       \/ th' = [th EXCEPT ![t].pc = "except_scan", ![t].why = "analysis"]
       \/ \E hits \in HitSeqs :
            LET o == th[t].obj
                Free(k) == ~is_in_cooldown(kind, maps[o], TheSub, k, now,
                                           ocfg[o].cooldown_hours)
                found == Cap(kind, SelectSeq(hits, Free), ocfg[o])
            IN  th' = [th EXCEPT ![t] =
                          IF found = <<>> THEN [@ EXCEPT !.pc = "return"]
                          ELSE [@ EXCEPT !.pc = "mark", !.found = found, !.j = 1]]
    /\ UNCHANGED <<storeVars, reg, cfgSect, sent, unsaved, nRebuild, left, updIdle, appVars, auxVars>>

\* mark_alerted(coin['symbol']): the dictionary entry is set and
\* _save_cooldown builds the data it is going to write.
Mark(t) ==
    /\ th[t].pc = "mark"
    /\ LET o == th[t].obj
           symbol == th[t].found[th[t].j]
           dicts == mark_alerted_set(maps[o], TheSub, symbol, now)
       IN  /\ maps' = [maps EXCEPT ![o] = dicts]
           /\ recorded' = [recorded EXCEPT ![TheSub] = DictSet(@, symbol, now)]
           /\ th' = [th EXCEPT ![t].pc = "write", ![t].snap = dicts[TheSub]]
    /\ UNCHANGED <<kind, now, file, ocfg, chk, durable, hydrated>>
    /\ UNCHANGED <<reg, cfgSect, sent, unsaved, nRebuild, left, updIdle, appVars, auxVars>>

\* _save_cooldown: open(COOLDOWN_FILE, 'w') and json.dump, inside its
\* try/except; then the next coin, or send_alert after the last.
Write(t) ==
    /\ th[t].pc = "write"
    /\ \E outcome \in WriteOutcomes :
        LET symbol == th[t].found[th[t].j]
            snap == th[t].snap
        IN  /\ file' = [file EXCEPT ![TheSub] =
                           _save_cooldown_write(@, _save_cooldown_data(snap), outcome)]
            /\ durable' = [durable EXCEPT ![TheSub] =
                              CASE outcome = "ok" -> snap
                                [] outcome = "denied" -> @
                                [] outcome = "partial" -> EmptyDict]
            /\ unsaved' =
                   IF outcome = "ok"
                   THEN {p \in unsaved : \/ p[2] \notin DOMAIN snap
                                         \/ snap[p[2]] # recorded[p[1]][p[2]]}
                   ELSE unsaved \cup {<<TheSub, symbol>>}
            /\ th' = [th EXCEPT ![t] =
                         IF @.j < Len(@.found)
                         THEN [@ EXCEPT !.pc = "mark", !.j = @ + 1, !.snap = EmptyDict]
                         ELSE [@ EXCEPT !.pc = "send", !.snap = EmptyDict]]
    /\ UNCHANGED <<kind, now, ocfg, maps, chk, recorded, hydrated>>
    /\ UNCHANGED <<reg, cfgSect, sent, nRebuild, left, updIdle, appVars, auxVars>>

\* The alerts of a batch for one symbol.
CountIn(found, k) == Cardinality({i \in 1..Len(found) : found[i] = k})

\* What send_alert does with the batch: the charts reach Telegram; or
\* nothing does (no token or chat id, no chart generated, the post fails:
\* each is printed and send_alert returns).
SendOutcomes == {"delivered", "undelivered"}

\* self.send_alert(found), up to "return found"
Send(t) ==
    /\ th[t].pc = "send"
    /\ LET found == th[t].found
           day == now \div HoursPerDay
           keys == {<<found[i], day>> : i \in 1..Len(found)}
           Old(p) == IF p \in DOMAIN sent THEN sent[p] ELSE 0
           New(p) == IF p \in keys THEN Old(p) + CountIn(found, p[1]) ELSE Old(p)
       IN  sent' = [p \in DOMAIN sent \cup keys |-> Min(New(p), MaxCount)]
    /\ \E outcome \in SendOutcomes :
         th' = [th EXCEPT ![t].pc = "return", ![t].why = outcome]
    /\ UNCHANGED <<storeVars, reg, cfgSect, unsaved, nRebuild, left, updIdle, appVars, auxVars>>

\* scan(): "except Exception as e: print(...); return []"
ExceptScan(t) ==
    /\ th[t].pc = "except_scan"
    /\ th' = [th EXCEPT ![t] = Local(Home(t), @.obj)]
    /\ UNCHANGED <<storeVars, reg, cfgSect, sent, unsaved, nRebuild, left, updIdle, appVars, auxVars>>

\* scan(): "return found" (or "return []") reaches the caller.
Return(t) ==
    /\ th[t].pc = "return"
    /\ th' = [th EXCEPT ![t] = Local(Home(t), @.obj)]
    /\ UNCHANGED <<storeVars, reg, cfgSect, sent, unsaved, nRebuild, left, updIdle, appVars, auxVars>>

\* run_scanner: "except Exception as e: logger.error(...)"
ExceptRun ==
    /\ th["timed"].pc = "except_run"
    /\ th' = [th EXCEPT !["timed"] = Local(run_scanner_after_error, @.obj)]
    /\ UNCHANGED <<storeVars, reg, cfgSect, sent, unsaved, nRebuild, left, updIdle, appVars, auxVars>>

\* run_scanner: time.sleep(interval_minutes * 60) returns
Wake ==
    /\ th["timed"].pc = "sleep"
    /\ th' = [th EXCEPT !["timed"].pc = "check"]
    /\ UNCHANGED <<storeVars, reg, cfgSect, sent, unsaved, nRebuild, left, updIdle, appVars, auxVars>>

\* update_config, as this strategy sees it: config[name] is replaced; then,
\* unless save_config failed or a constructor raised in init_scanners before
\* this scanner was reached, scanners[name] is a new object that loads the
\* cooldown file.
UpdateConfig ==
    /\ nRebuild < MaxRebuilds
    /\ nRebuild' = nRebuild + 1
    /\ \E sect \in {"on", "off", "bad"}, built \in BOOLEAN, c \in CooldownChoices :
        /\ sect = "bad" => ~built
        /\ cfgSect' = sect
        /\ IF built
           THEN LET o == reg + 1
                IN  /\ reg' = o
                    /\ ocfg' = [x \in DOMAIN ocfg \cup {o} |->
                                   IF x = o
                                   THEN [enabled |-> sect = "on", cooldown_hours |-> c,
                                         max_coins |-> MaxHits]
                                   ELSE ocfg[x]]
                    /\ maps' = [x \in DOMAIN maps \cup {o} |->
                                   IF x = o THEN NewDicts(kind, file) ELSE maps[x]]
                    /\ updIdle' = (th["timed"].pc \in {"sleep", "check"})
           ELSE UNCHANGED <<reg, ocfg, maps, updIdle>>
    /\ UNCHANGED <<kind, now, file, chk, recorded, durable, hydrated>>
    /\ UNCHANGED <<th, sent, unsaved, left, appVars, auxVars>>

NextScan ==
    \/ Tick
    \/ TimedCheck
    \/ ManualStart
    \/ \E t \in Threads : Analyze(t)
    \/ \E t \in Threads : Mark(t)
    \/ \E t \in Threads : Write(t)
    \/ \E t \in Threads : Send(t)
    \/ \E t \in Threads : ExceptScan(t)
    \/ \E t \in Threads : Return(t)
    \/ ExceptRun
    \/ Wake
    \/ UpdateConfig

SpecScan == InitScan /\ [][NextScan]_vars

\* A thread is inside scan(), between its first request and its return.
InCycle(t) == th[t].pc \in {"fetch", "mark", "write", "send", "except_scan", "return"}

\* A thread is inside mark_alerted: the dictionary is set, the file is not
\* written yet.
InMark(t) == th[t].pc \in {"mark", "write"}

\* C1: for the EMA strategy, no symbol is handed to send_alert more than once
\* in one UTC day, however timed and manual scans interleave.
C1_OneAlertPerDay ==
    kind = "ema" => \A p \in DOMAIN sent : sent[p] <= 1

\* C2: two scan cycles of the same strategy are never in progress at once.
C2_OneCycleAtATime ==
    ~(InCycle("timed") /\ InCycle("manual"))

\* C2, second half: the cooldown dictionary is never being changed by two
\* threads at once.
C2_NoConcurrentMutation ==
    ~(InMark("timed") /\ InMark("manual") /\ th["timed"].obj = th["manual"].obj)

\* C9: when a _save_cooldown call has written the file, the mapping the file
\* holds equals the dictionary of the scanner that wrote it.
C9_WriteThrough ==
    [][\A t \in Threads :
          (/\ th[t].pc = "write"
           /\ th'[t].pc # "write"
           /\ file' # file
           /\ file'[TheSub].state = "ok")
          => _load_cooldown(file'[TheSub]) = maps'[th[t].obj][TheSub]]_vars

\* C10: an entry whose write failed stays known to the strategy's scanner
\* (the object manual scans and /api/status use) with the recorded instant,
\* as long as the process lives.
C10_FailedWriteKept ==
    \A p \in unsaved :
        /\ p[2] \in DOMAIN maps[reg][p[1]]
        /\ maps[reg][p[1]][p[2]] = recorded[p[1]][p[2]]

\* The constructor parameters a scanner object's scan() depends on:
\* EMAScanner.__init__ has no cooldown_hours parameter (it goes to **kwargs).
ScanParams(o) ==
    IF kind = "ema"
    THEN [enabled |-> ocfg[o].enabled, max_coins |-> ocfg[o].max_coins]
    ELSE ocfg[o]

\* The timed thread's next pass of the loop reaches the body of scan().
RunsEnabled == cfgSect = "on" /\ ocfg[th["timed"].obj].enabled

\* C7: after a configuration update applied while the timed thread was
\* between two cycles, the thread's next cycle runs with the updated
\* parameters: it runs exactly when the update enables the strategy, and
\* then with the update's cooldown_hours and max_coins.
C7_UpdateAppliedNextCycle ==
    (updIdle /\ th["timed"].pc = "check") =>
        /\ RunsEnabled = ocfg[reg].enabled
        /\ RunsEnabled => ScanParams(th["timed"].obj) = ScanParams(reg)

\* The thread's batch is at send_alert, or send_alert has returned.
AtDispatch(t) ==
    \/ th[t].pc = "send"
    \/ th[t].pc = "return" /\ th[t].why \in SendOutcomes

\* C13: the cooldown entry of every coin of a batch is set before the batch
\* is handed to send_alert, and it is still there when send_alert has
\* returned, whether or not anything was delivered.
C13_RecordedBeforeDispatch ==
    \A t \in Threads :
        AtDispatch(t) =>
            \A i \in 1..Len(th[t].found) :
                /\ th[t].found[i] \in DOMAIN maps[th[t].obj][TheSub]
                /\ th[t].found[i] \in DOMAIN recorded[TheSub]

\* C13's case: send_alert has returned from a batch of which nothing was
\* delivered, and the entries of the batch are in the dictionary.
C13_Witness ==
    \E t \in Threads :
        /\ th[t].pc = "return"
        /\ th[t].why = "undelivered"
        /\ th[t].found # <<>>
        /\ \A i \in 1..Len(th[t].found) :
             th[t].found[i] \in DOMAIN maps[th[t].obj][TheSub]

\* C19: a cycle whose filter keeps no pair (an empty tickers list, or no
\* pair passing the filter) ends with an empty result: from there to the
\* point where scan() has returned, no step of the thread changes a
\* cooldown dictionary or file, nothing is handed to send_alert, and the
\* thread does not come to run_scanner's except block.
C19_EmptyUniverse ==
    [][\A t \in Threads :
         (th'[t] # th[t] /\ (th[t].why = "empty" \/ th'[t].why = "empty")) =>
             /\ th'[t].found = <<>>
             /\ th'[t].pc \in {"except_scan", "return", Home(t)}
             /\ maps' = maps
             /\ file' = file
             /\ recorded' = recorded
             /\ sent' = sent]_vars

\* C19's case: EMAScanner.scan is in its except block because no pair
\* passed the filter.
C19_Witness ==
    /\ kind = "ema"
    /\ th["timed"].pc = "except_scan"
    /\ th["timed"].why = "empty"

\* ================================================================ SpecLoop
\* The run_scanner thread of one strategy alone, with no limit on its
\* cycles, under update_config calls and the clock.

InitLoop ==
    /\ InitStrategy
    /\ cfgSect = "on"
    /\ left = [t \in Threads |-> IF t = "timed" THEN -1 ELSE 0]

\* A step of the run_scanner thread.
TimedStep ==
    \/ TimedCheck
    \/ Analyze("timed")
    \/ Mark("timed")
    \/ Write("timed")
    \/ Send("timed")
    \/ ExceptScan("timed")
    \/ Return("timed")
    \/ ExceptRun
    \/ Wake

NextLoop ==
    \/ Tick
    \/ TimedStep
    \/ UpdateConfig

SpecLoop == InitLoop /\ [][NextLoop]_vars

\* The thread is scheduled, its requests time out (timeout=10) and
\* time.sleep returns.
FairLoop == SpecLoop /\ WF_vars(TimedStep)

TimedError == th["timed"].pc \in {"except_scan", "except_run"}

\* C5: the timed loop never ends: after an error in a cycle the thread goes
\* back to its sleep, and it comes to the top of the loop again and again.
C5_LoopNeverEnds ==
    /\ TimedError ~> (th["timed"].pc = "sleep")
    /\ []<>(th["timed"].pc = "check")

FetchFailed(l) == l.why \in FetchErrors \cup {"retCode"}

\* C20: when the request of the tickers raises, times out or answers with a
\* retCode other than 0, the cycle ends with an empty result: no step of the
\* thread from there to the return of scan() changes a cooldown dictionary
\* or file or hands anything to send_alert, and the thread comes to the top
\* of its loop again.
C20_FetchFailureSkipsCycle ==
    /\ [][(th'["timed"] # th["timed"]
            /\ (FetchFailed(th["timed"]) \/ FetchFailed(th'["timed"]))) =>
              /\ th'["timed"].found = <<>>
              /\ th'["timed"].pc \in {"except_scan", "return", "sleep"}
              /\ maps' = maps
              /\ file' = file
              /\ recorded' = recorded
              /\ sent' = sent]_vars
    /\ FetchFailed(th["timed"]) ~> (th["timed"].pc = "check")

\* C20's case: the request timed out and scan() is in its except block.
C20_Witness ==
    /\ th["timed"].pc = "except_scan"
    /\ th["timed"].why = "timeout"

\* C5's case: run_scanner's except block is handling an exception.
C5_Witness ==
    /\ th["timed"].pc = "except_run"
    /\ cfgSect = "bad"

\* ==================================================================== Spec
\* The application: __main__ (load_config, init_scanners, start_scanners,
\* app.run), update_config requests and the four run_scanner threads. A
\* strategy is named here by its key in the scanners registry; its config
\* section is ema_touch, daily_flip, volume_scanner, ath_atl.

\* The order in which init_scanners constructs and start_scanners starts.
BuildOrder == <<"ema", "flip", "volume", "ath_atl">>

\* The value of a strategy's config section: a complete mapping with
\* 'enabled' true ("on") or false ("off"); a complete, enabled mapping whose
\* flip_threshold is not a number ("unfit": {"flip_threshold": "2", ...}); a
\* value that is not a mapping ("bad": null, a string).
SectVals == {"on", "off", "unfit", "bad"}

\* The sections a config file or an update_config body can hold.
Sections == {c \in [KindNames -> SectVals] : \A s \in KindNames : c[s] = "unfit" => s = "flip"}

NoScanner == [gen |-> 0, sect |-> "none"]

NoThread == [pc |-> "none", obj |-> NoScanner]

\* The constructor call Scanner(telegram_config=..., **config[section],
\* **config['general']) raises: ** of a value that is not a mapping, or
\* DailyFlipScanner.__init__'s flip_threshold / 100.
ctor_raises(s, v) == v = "bad" \/ (v = "unfit" /\ s = "flip")

\* init_scanners: the constructors run in order inside one try block, so
\* the i-th is called only if none before it raised, and registers its
\* object only if it did not raise itself.
init_scanners_reached(cfg, i) ==
    \A j \in 1..i : ~ctor_raises(BuildOrder[j], cfg[BuildOrder[j]])

Index(s) == CHOOSE i \in 1..Len(BuildOrder) : BuildOrder[i] = s

\* The registry after init_scanners ran as the g-th run.
init_scanners(cfg, old, g) ==
    [s \in KindNames |->
        IF init_scanners_reached(cfg, Index(s))
        THEN [gen |-> g, sect |-> cfg[s]]
        ELSE old[s]]

init_scanners_failed(cfg) ==
    \E s \in KindNames : ctor_raises(s, cfg[s])

\* The state after load_config: config.update(saved) with the sections of
\* the config file (DEFAULT_CONFIG's when there is none).
Init ==
    /\ mainpc = "init"
    /\ config \in Sections
    /\ scanners = [s \in KindNames |-> NoScanner]
    /\ scanner_threads = [s \in KindNames |-> NoThread]
    /\ nUpd = 0
    /\ resp = "none"
    /\ initErr = FALSE
    /\ kind = "none"
    /\ now = 0
    /\ file = <<>>
    /\ ocfg = <<>>
    /\ maps = <<>>
    /\ chk = NoCheck
    /\ recorded = <<>>
    /\ durable = <<>>
    /\ hydrated = {}
    /\ reg = 0
    /\ cfgSect = "none"
    /\ th = <<>>
    /\ sent = <<>>
    /\ unsaved = {}
    /\ nRebuild = 0
    /\ left = <<>>
    /\ updIdle = FALSE
    /\ NoSel
    /\ NoCycle
    /\ NoPure

\* __main__: init_scanners()
MainInitScanners ==
    /\ mainpc = "init"
    /\ scanners' = init_scanners(config, scanners, 1)
    /\ initErr' = init_scanners_failed(config)
    /\ mainpc' = "start"
    /\ UNCHANGED <<config, scanner_threads, nUpd, resp>>
    /\ UNCHANGED <<storeVars, scanVars, auxVars>>

\* __main__: start_scanners(), then app.run. Building threads_config reads
\* config[name]['scan_interval_minutes'] of every strategy, which raises on a
\* section that is not a mapping: the process ends. Otherwise a thread is
\* started for every strategy with "scanner and config[name]['enabled']".
MainStartScanners ==
    /\ mainpc = "start"
    /\ IF \E s \in KindNames : config[s] = "bad"
       THEN /\ mainpc' = "crashed"
            /\ UNCHANGED scanner_threads
       ELSE /\ mainpc' = "serving"
            /\ scanner_threads' =
                  [s \in KindNames |->
                      IF scanners[s] # NoScanner /\ config[s] # "off"
                      THEN [pc |-> "sleep", obj |-> scanners[s]]
                      ELSE NoThread]
    /\ UNCHANGED <<config, scanners, nUpd, resp, initErr>>
    /\ UNCHANGED <<storeVars, scanVars, auxVars>>

\* run_scanner, one pass of the loop up to scanner.scan(): nothing runs when
\* config[name] says disabled or is not a mapping (the except block), or when
\* the thread's scanner has enabled false.
AppCycleStart(s) ==
    /\ mainpc = "serving"
    /\ scanner_threads[s].pc = "sleep"
    /\ config[s] \in {"on", "unfit"}
    /\ scanner_threads[s].obj.sect # "off"
    /\ scanner_threads' = [scanner_threads EXCEPT ![s].pc = "scan"]
    /\ UNCHANGED <<mainpc, config, scanners, nUpd, resp, initErr>>
    /\ UNCHANGED <<storeVars, scanVars, auxVars>>

\* scanner.scan() returns (with alerts, with [], or after its except
\* block) and run_scanner sleeps.
AppCycleEnd(s) ==
    /\ scanner_threads[s].pc = "scan"
    /\ mainpc = "serving"
    /\ scanner_threads' = [scanner_threads EXCEPT ![s].pc = "sleep"]
    /\ UNCHANGED <<mainpc, config, scanners, nUpd, resp, initErr>>
    /\ UNCHANGED <<storeVars, scanVars, auxVars>>

\* update_config with a body replacing one section: config.update, then
\* save_config, then init_scanners if the save succeeded.
UpdateSection(s, v, saved) ==
    /\ mainpc = "serving"
    /\ nUpd < MaxRebuilds
    /\ nUpd' = nUpd + 1
    /\ v = "unfit" => s = "flip"
    /\ config' = [config EXCEPT ![s] = v]
    /\ IF saved
       THEN /\ scanners' = init_scanners(config', scanners, nUpd + 2)
            /\ initErr' = init_scanners_failed(config')
            /\ resp' = "200"
       ELSE /\ resp' = "500"
            /\ UNCHANGED <<scanners, initErr>>
    /\ UNCHANGED <<mainpc, scanner_threads>>
    /\ UNCHANGED <<storeVars, scanVars, auxVars>>

\* update_config with no JSON object in the body: "if not new_config" (400),
\* or request.get_json() raising (500).
UpdateRejected ==
    /\ mainpc = "serving"
    /\ nUpd < MaxRebuilds
    /\ nUpd' = nUpd + 1
    /\ resp' \in {"400", "500"}
    /\ UNCHANGED <<mainpc, config, scanners, scanner_threads, initErr>>
    /\ UNCHANGED <<storeVars, scanVars, auxVars>>

Next ==
    \/ MainInitScanners
    \/ MainStartScanners
    \/ \E s \in KindNames : AppCycleStart(s)
    \/ \E s \in KindNames : AppCycleEnd(s)
    \/ \E s \in KindNames, v \in SectVals, saved \in BOOLEAN : UpdateSection(s, v, saved)
    \/ UpdateRejected

Spec == Init /\ [][Next]_vars

\* C6: a strategy is not held up by another one: once the application has
\* started, every strategy whose own section is a complete, enabled mapping
\* has its timed thread, whatever the sections of the other strategies are.
C6_Isolated ==
    (mainpc \in {"serving", "crashed"} /\ nUpd = 0) =>
        \A s \in KindNames : config[s] = "on" => scanner_threads[s].pc # "none"

\* C8: a configuration update that fails (save_config fails, the request is
\* rejected, or init_scanners ends in its except block) leaves the in-memory
\* config and every registered scanner as they were.
C8_FailedUpdateChangesNothing ==
    [][(nUpd' # nUpd /\ (resp' # "200" \/ initErr'))
         => (config' = config /\ scanners' = scanners)]_vars

\* =============================================================== SpecSelect
\* The choice of the pairs a cycle analyses, from the tickers response to
\* pairs_to_analyze, in EMAScanner, DailyFlipScanner and ATHATLScanner.

\* Symbols, as the pieces their text is made of: three USDT perpetuals and a
\* contract quoted otherwise. Alphabet gives the order of the texts.
SelSymbols == {<<"A", "USDT">>, <<"B", "USDT">>, <<"C", "USDT">>, <<"D", "PERP">>}

Alphabet == <<"A", "B", "C", "D">>

\* self.min_volume_24h, scaled to the volumes and prices below.
min_volume_24h == 2

\* The slices [:10] / [-10:] (EMAScanner) and [:20] / [-20:] (the other
\* two), scaled to the length of the modelled responses.
TopNs == {1, 2}

\* The figures of an element of result['list'] that scan() reads.
Figures == [price24hPcnt : {-1, 1}, volume24h : {1, 2}, lastPrice : {1, 2}]

\* An element of result['list'].
Ticker(sym, f) ==
    [symbol |-> sym, price24hPcnt |-> f.price24hPcnt, volume24h |-> f.volume24h,
     lastPrice |-> f.lastPrice]

\* The symbols of a response of n tickers: every symbol at most once.
SymbolLists(n) ==
    {l \in [1..n -> SelSymbols] : \A i, j \in 1..n : i # j => l[i] # l[j]}

\* str.endswith
endswith(s, suffix) == Len(s) > 0 /\ s[Len(s)] = suffix

\* float(item.get('volume24h', 0)) * float(item.get('lastPrice', 0))
volume_24h_usd(item) == item.volume24h * item.lastPrice

\* The mutant of below_min_volume used by the check of C15: a pair exactly
\* at the minimum is dropped too.
below_or_at_min_volume(v) == v <= min_volume_24h

\* "if volume_24h_usd < self.min_volume_24h: continue"
below_min_volume(v) == v < min_volume_24h

\* float(item.get('price24hPcnt', 0)) * 100
change_pct(item) == item.price24hPcnt * 100

\* The loop that builds all_pairs: the two "continue" tests, then append.
filter_pairs(list) ==
    LET Kept(item) == /\ endswith(item.symbol, "USDT")
                      /\ ~below_min_volume(volume_24h_usd(item))
        kept == SelectSeq(list, Kept)
    IN  [i \in 1..Len(kept) |->
            [symbol |-> kept[i].symbol, change_pct |-> change_pct(kept[i])]]

\* list.sort(key=change_pct, reverse=True): a stable sort, so pairs with the
\* same change keep the order they had in the list.
RECURSIVE sort_reverse(_)
sort_reverse(l) ==
    IF l = <<>> THEN <<>>
    ELSE LET x == l[Len(l)]
             done == sort_reverse(SubSeq(l, 1, Len(l) - 1))
             k == Cardinality({i \in 1..Len(done) : done[i].change_pct >= x.change_pct})
         IN  SubSeq(done, 1, k) \o <<x>> \o SubSeq(done, k + 1, Len(done))

Max(a, b) == IF a > b THEN a ELSE b

\* all_pairs[:n]
first_n(l, n) == SubSeq(l, 1, Min(n, Len(l)))

\* all_pairs[-n:]
last_n(l, n) == SubSeq(l, Max(1, Len(l) - n + 1), Len(l))

\* The mutant of top_losers_of used by the check of C17: the slice is one
\* pair too long.
top_losers_wide(l, n) == IF Len(l) >= n THEN last_n(l, n + 1) ELSE <<>>

\* The mutant of top_losers_of used by the check of C16: the test of the
\* length is left out.
top_losers_unguarded(l, n) == last_n(l, n)

\* top_10_losers = all_pairs[-10:] if len(all_pairs) >= 10 else []
top_losers_of(l, n) == IF Len(l) >= n THEN last_n(l, n) ELSE <<>>

\* scan() has the response: a list of tickers.
InitSelect ==
    /\ \E n \in 0..MaxTickers :
         \E l \in SymbolLists(n), f \in [1..n -> Figures] :
             snapshot = [i \in 1..n |-> Ticker(l[i], f[i])]
    /\ top_n \in TopNs
    /\ selpc = "fetched"
    /\ all_pairs = <<>>
    /\ top_gainers = <<>>
    /\ top_losers = <<>>
    /\ NoCycle
    /\ NoPure
    /\ NoStore
    /\ NoScan
    /\ mainpc = "off"
    /\ config = <<>>
    /\ scanners = <<>>
    /\ scanner_threads = <<>>
    /\ nUpd = 0
    /\ resp = "none"
    /\ initErr = FALSE

\* The loop over result['list'].
FilterPairs ==
    /\ selpc = "fetched"
    /\ all_pairs' = filter_pairs(snapshot)
    /\ selpc' = "filtered"
    /\ UNCHANGED <<snapshot, top_n, top_gainers, top_losers>>
    /\ UNCHANGED <<storeVars, scanVars, appVars, cycleVars, pureVars>>

\* all_pairs.sort(key=lambda x: x['change_pct'], reverse=True)
SortPairs ==
    /\ selpc = "filtered"
    /\ all_pairs' = sort_reverse(all_pairs)
    /\ selpc' = "sorted"
    /\ UNCHANGED <<snapshot, top_n, top_gainers, top_losers>>
    /\ UNCHANGED <<storeVars, scanVars, appVars, cycleVars, pureVars>>

\* The two slices.
SlicePairs ==
    /\ selpc = "sorted"
    /\ top_gainers' = first_n(all_pairs, top_n)
    /\ top_losers' = top_losers_of(all_pairs, top_n)
    /\ selpc' = "sliced"
    /\ UNCHANGED <<snapshot, top_n, all_pairs>>
    /\ UNCHANGED <<storeVars, scanVars, appVars, cycleVars, pureVars>>

NextSelect ==
    \/ FilterPairs
    \/ SortPairs
    \/ SlicePairs

SpecSelect == InitSelect /\ [][NextSelect]_vars


\* The symbols of a list of pairs.
SymbolsOf(l) == {l[i].symbol : i \in 1..Len(l)}

\* A ticker's 24 h turnover is not below the minimum.
EnoughVolume(item) == item.volume24h * item.lastPrice >= min_volume_24h

\* C15: the universe filter. A ticker of the response is in all_pairs exactly
\* when its symbol ends with USDT and volume24h * lastPrice is not below
\* min_volume_24h (a ticker exactly at the minimum is kept), and all_pairs
\* holds nothing else and no symbol twice.
C15_UniverseFilter ==
    selpc # "fetched" =>
        /\ \A i \in 1..Len(snapshot) :
             snapshot[i].symbol \in SymbolsOf(all_pairs)
                 <=> (snapshot[i].symbol[2] = "USDT" /\ EnoughVolume(snapshot[i]))
        /\ SymbolsOf(all_pairs) \subseteq SymbolsOf(snapshot)
        /\ Cardinality(SymbolsOf(all_pairs)) = Len(all_pairs)

\* C15's case: of three tickers, one exactly at the minimum is kept, one
\* below it is dropped and one that does not end with USDT is dropped.
C15_Witness ==
    /\ selpc = "filtered"
    /\ \E i, j, k \in 1..Len(snapshot) :
         /\ volume_24h_usd(snapshot[i]) = min_volume_24h
         /\ snapshot[i].symbol \in SymbolsOf(all_pairs)
         /\ snapshot[j].symbol[2] = "USDT"
         /\ volume_24h_usd(snapshot[j]) < min_volume_24h
         /\ snapshot[j].symbol \notin SymbolsOf(all_pairs)
         /\ snapshot[k].symbol[2] # "USDT"
         /\ EnoughVolume(snapshot[k])
         /\ snapshot[k].symbol \notin SymbolsOf(all_pairs)

\* all_pairs is in descending order of change_pct.
Ranked == \A i, j \in 1..Len(all_pairs) :
              i < j => all_pairs[i].change_pct >= all_pairs[j].change_pct

Reverse(l) == [i \in 1..Len(l) |-> l[Len(l) + 1 - i]]

NoDuplicate(l) == \A i, j \in 1..Len(l) : i # j => l[i].symbol # l[j].symbol

\* C17: no symbol is twice in the top gainers or twice in the top losers, and
\* a symbol is in both lists only when fewer than 2 * topN pairs survive.
C17_NoDuplicates ==
    selpc = "sliced" =>
        /\ NoDuplicate(top_gainers)
        /\ NoDuplicate(top_losers)
        /\ (SymbolsOf(top_gainers) \cap SymbolsOf(top_losers) # {}
              => Len(all_pairs) < 2 * top_n)

\* C17's case: three survivors and slices of two: the middle pair is in both
\* lists.
C17_Witness ==
    /\ selpc = "sliced"
    /\ top_n = 2
    /\ Len(all_pairs) = 3
    /\ SymbolsOf(top_gainers) \cap SymbolsOf(top_losers) # {}
    /\ NoDuplicate(top_gainers)
    /\ NoDuplicate(top_losers)

\* The responses with the tickers of l in another order.
Reordered(l) ==
    {[i \in 1..Len(l) |-> l[q[i]]] : q \in Permutations(1..Len(l))}

\* The place of a symbol in the order of the texts.
Place(sym) == CHOOSE i \in 1..Len(Alphabet) : Alphabet[i] = sym[1]

\* C18: the selection depends on the set of tickers alone: the same tickers
\* in another order give the same two lists, pairs with the same change being
\* ranked by their symbols.
C18_Deterministic ==
    selpc = "sliced" =>
        /\ \A l \in Reordered(snapshot) :
             LET ranked == sort_reverse(filter_pairs(l))
             IN  /\ first_n(ranked, top_n) = top_gainers
                 /\ top_losers_of(ranked, top_n) = top_losers
        /\ \A i, j \in 1..Len(all_pairs) :
             (i < j /\ all_pairs[i].change_pct = all_pairs[j].change_pct)
                 => Place(all_pairs[i].symbol) < Place(all_pairs[j].symbol)


\* ================================================================ SpecCycle
\* The run_scanner thread of one strategy with its timing: the phases of one
\* pass of the loop and the instant of the next. Idle is "sleep" (the thread
\* is in time.sleep); the other phases are inside scanner.scan().

\* interval_minutes, as start_scanners passes it to run_scanner.
Intervals == {2, 3}

\* pairs_to_analyze of one cycle.
PairLists == UNION {[1..n -> Symbols] : n \in 0..MaxPairs}

NoInstant == -1

\* The mutant of sleep_until used by the check of C14: the thread wakes at
\* the next multiple of the interval.
sleep_until_aligned(t, minutes) == (t \div minutes + 1) * minutes

\* time.sleep(interval_minutes * 60), called at t: the instant it returns.
sleep_until(t, minutes) == t + minutes

\* The thread has just been started: the first pass of the loop begins at
\* once.
InitCycle ==
    /\ clock = 0
    /\ interval \in Intervals
    /\ phase = "sleep"
    /\ pending = <<>>
    /\ results = <<>>
    /\ wakeAt = 0
    /\ cyc = [idleAt |-> NoInstant, startAt |-> NoInstant, handed |-> <<>>]
    /\ NoStore
    /\ reg = 0
    /\ cfgSect = "on"
    /\ th = <<>>
    /\ sent = <<>>
    /\ unsaved = {}
    /\ nRebuild = 0
    /\ left = <<>>
    /\ updIdle = FALSE
    /\ NoSel
    /\ NoPure
    /\ mainpc = "off"
    /\ config = <<>>
    /\ scanners = <<>>
    /\ scanner_threads = <<>>
    /\ nUpd = 0
    /\ resp = "none"
    /\ initErr = FALSE

\* A minute passes; time.sleep returns when its time is over.
CycleTick ==
    /\ clock < MaxClock
    /\ phase = "sleep" => clock < wakeAt
    /\ clock' = clock + 1
    /\ UNCHANGED <<interval, phase, pending, results, wakeAt, cyc>>
    /\ UNCHANGED <<storeVars, scanVars, appVars, selVars, pureVars>>

\* scan() has returned, or was not called: run_scanner calls time.sleep.
ToSleep ==
    /\ phase' = "sleep"
    /\ pending' = <<>>
    /\ results' = <<>>
    /\ wakeAt' = sleep_until(clock, interval)
    /\ UNCHANGED <<clock, interval>>

\* run_scanner, top of the loop with the strategy enabled: scanner.scan()
\* sends its request of the tickers.
CycleStart ==
    /\ phase = "sleep"
    /\ clock = wakeAt
    /\ cfgSect = "on"
    /\ phase' = "fetching"
    /\ cyc' = [cyc EXCEPT !.startAt = clock, !.handed = <<>>]
    /\ UNCHANGED <<clock, interval, pending, results, wakeAt>>
    /\ UNCHANGED <<storeVars, scanVars, appVars, selVars, pureVars>>

\* run_scanner, top of the loop with the strategy disabled: time.sleep again.
CycleSkip ==
    /\ phase = "sleep"
    /\ clock = wakeAt
    /\ cfgSect = "off"
    /\ ToSleep
    /\ cyc' = [cyc EXCEPT !.idleAt = clock]
    /\ UNCHANGED <<storeVars, scanVars, appVars, selVars, pureVars>>

\* The tickers arrive and the pairs to analyse are chosen; or the request
\* fails and scan() returns [].
Fetched ==
    /\ phase = "fetching"
    /\ \/ /\ \E l \in PairLists : pending' = l
          /\ phase' = "evaluating"
          /\ UNCHANGED <<clock, interval, results, wakeAt, cyc>>
       \/ /\ ToSleep
          /\ cyc' = [cyc EXCEPT !.idleAt = clock]
    /\ UNCHANGED <<storeVars, scanVars, appVars, selVars, pureVars>>

\* One pass of "for ... in pairs_to_analyze": the pair is appended to found
\* or not; or an exception ends scan() in its except block.
EvaluateOne ==
    /\ phase = "evaluating"
    /\ pending # <<>>
    /\ \/ /\ \E hit \in BOOLEAN :
               results' = IF hit THEN Append(results, Head(pending)) ELSE results
          /\ pending' = Tail(pending)
          /\ UNCHANGED <<clock, interval, phase, wakeAt, cyc>>
       \/ /\ ToSleep
          /\ cyc' = [cyc EXCEPT !.idleAt = clock]
    /\ UNCHANGED <<storeVars, scanVars, appVars, selVars, pureVars>>

\* After the loop: "if found:" leads to the marks and send_alert, an empty
\* found to "return found".
EvaluateDone ==
    /\ phase = "evaluating"
    /\ pending = <<>>
    /\ \/ /\ results # <<>>
          /\ phase' = "dispatching"
          /\ UNCHANGED <<clock, interval, pending, results, wakeAt, cyc>>
       \/ /\ results = <<>>
          /\ ToSleep
          /\ cyc' = [cyc EXCEPT !.idleAt = clock]
    /\ UNCHANGED <<storeVars, scanVars, appVars, selVars, pureVars>>

\* mark_alerted for every coin, self.send_alert(found), return found.
Dispatch ==
    /\ phase = "dispatching"
    /\ ToSleep
    /\ cyc' = [cyc EXCEPT !.idleAt = clock, !.handed = results]
    /\ UNCHANGED <<storeVars, scanVars, appVars, selVars, pureVars>>

\* update_config switches the strategy's 'enabled'.
CycleConfig ==
    /\ cfgSect' = IF cfgSect = "on" THEN "off" ELSE "on"
    /\ UNCHANGED <<storeVars, reg, th, sent, unsaved, nRebuild, left, updIdle>>
    /\ UNCHANGED <<appVars, auxVars>>

NextCycle ==
    \/ CycleTick
    \/ CycleStart
    \/ CycleSkip
    \/ Fetched
    \/ EvaluateOne
    \/ EvaluateDone
    \/ Dispatch
    \/ CycleConfig

SpecCycle == InitCycle /\ [][NextCycle]_vars

\* The phase changes the state machine of a strategy allows.
PhaseOrder ==
    {<<"sleep", "fetching">>, <<"fetching", "evaluating">>,
     <<"evaluating", "dispatching">>, <<"dispatching", "sleep">>,
     <<"fetching", "sleep">>, <<"evaluating", "sleep">>}

\* C14: a cycle goes from Idle to Fetching, Evaluating, Dispatching and back
\* to Idle in this order (an error, or an empty result, leads back to Idle
\* at once); a batch is handed over only when no pair is left to evaluate;
\* and a cycle starts exactly one interval after the thread last went to
\* sleep, whatever the time of day.
C14_PhasesAndInterval ==
    /\ [][phase' # phase => <<phase, phase'>> \in PhaseOrder]_vars
    /\ [](phase = "dispatching" => pending = <<>>)
    /\ [](phase \in {"fetching", "evaluating", "dispatching"} => cyc.handed = <<>>)
    /\ [][(phase = "sleep" /\ phase' = "fetching") =>
            (cyc.idleAt = NoInstant \/ clock' = cyc.idleAt + interval)]_vars

\* C14's case: a batch has been handed over in a cycle that started one
\* interval after the last sleep began, at a minute that is no multiple of
\* the interval.
C14_Witness ==
    /\ phase = "sleep"
    /\ cyc.handed # <<>>
    /\ cyc.startAt > 0
    /\ cyc.startAt % interval # 0


\* ================================================================ SpecEval
\* The body of the evaluation loop of each scanner, for one pair: the test
\* of the figures, the cooldown test and the append. Prices are whole
\* numbers, changes and thresholds whole percents; a quotient a / b * 100 of
\* the code (b > 0) is compared by cross-multiplication, which is exact.

\* datetime.now() during the loop body, in hours
EvalNow == 30

EvalSymbol == "AUSDT"

\* cooldown_hours of the scanner object
EvalCooldown == 2

Abs(x) == IF x < 0 THEN 0 - x ELSE x

\* The dictionaries of a scanner whose dictionaries of the sub-kinds in
\* alerted hold a stamp of the symbol that is an hour old.
DictsOf(k, alerted) ==
    [s \in Subs(k) |-> IF s \in alerted
                       THEN DictSet(EmptyDict, EvalSymbol, EvalNow - 1)
                       ELSE EmptyDict]

\* ema_data['distance_pct'] < self.ema_touch_threshold, with
\* distance_pct = abs((current_price - ema60) / ema60 * 100)
ema_touch_inclusive(current_price, ema60, ema_touch_threshold) ==
    Abs(current_price - ema60) * 100 <= ema_touch_threshold * ema60

ema_touch(current_price, ema60, ema_touch_threshold) ==
    Abs(current_price - ema60) * 100 < ema_touch_threshold * ema60

\* approach_dir = "from above" if current_price > ema60 else "from below"
approach_dir(current_price, ema60) ==
    IF current_price > ema60 THEN "from above" ELSE "from below"

\* EMAScanner.scan, loop body after fetch_klines_and_calculate_ema: what is
\* appended to found.
EMAScanner_evaluate(in) ==
    IF ema_touch(in.current_price, in.ema60, in.ema_touch_threshold)
    THEN IF EMAScanner_is_in_cooldown(DictsOf("ema", in.alerted)["ema"], in.symbol, EvalNow)
         THEN <<>>
         ELSE <<[symbol |-> in.symbol,
                 approach_dir |-> approach_dir(in.current_price, in.ema60)]>>
    ELSE <<>>

EmaPrices == 97..104

EmaInputs ==
    [strategy : {"ema"}, symbol : {EvalSymbol}, current_price : EmaPrices,
     ema60 : {100, 101}, ema_touch_threshold : {1, 2},
     alerted : SUBSET Subs("ema")]

\* DailyFlipScanner.__init__: self.flip_threshold = flip_threshold / 100,
\* kept as the quotient <<numerator, denominator>>.
flip_threshold_of(flip_threshold) == <<flip_threshold, 100>>

\* abs(change_pct) < self.flip_threshold * 100
near_flip_inclusive(change, flip_threshold) ==
    Abs(change) * flip_threshold[2] <= flip_threshold[1] * 100

near_flip(change, flip_threshold) ==
    Abs(change) * flip_threshold[2] < flip_threshold[1] * 100

\* flip_direction = green-to-red if change_pct > 0 else red-to-green
flip_direction(change) ==
    IF change > 0 THEN "green_to_red" ELSE "red_to_green"

\* self.flip_type == 'both' or (green_to_red and change_pct > 0) or
\* (red_to_green and change_pct < 0)
flip_type_matches(flip_type, change) ==
    \/ flip_type = "both"
    \/ (flip_type = "green_to_red" /\ change > 0)
    \/ (flip_type = "red_to_green" /\ change < 0)

\* DailyFlipScanner.scan, loop body: what is appended to found.
DailyFlipScanner_evaluate(in) ==
    IF near_flip(in.change_pct, flip_threshold_of(in.flip_threshold))
    THEN IF flip_type_matches(in.flip_type, in.change_pct)
         THEN IF DailyFlipScanner_is_in_cooldown(DictsOf("flip", in.alerted)["flip"],
                                                 in.symbol, EvalNow, EvalCooldown)
              THEN <<>>
              ELSE <<[symbol |-> in.symbol,
                      flip_direction |-> flip_direction(in.change_pct)]>>
         ELSE <<>>
    ELSE <<>>

FlipTypes == {"both", "green_to_red", "red_to_green"}

FlipInputs ==
    [strategy : {"flip"}, symbol : {EvalSymbol}, change_pct : (0 - 3)..3,
     flip_threshold : {1, 2}, flip_type : FlipTypes,
     alerted : SUBSET Subs("flip")]

\* The mutant of VolumeScanner_evaluate used by the check of C28: one
\* cooldown for both sub-kinds.
VolumeScanner_evaluate_shared(in) ==
    LET dicts == DictsOf("volume", in.alerted)
        Cooling(a) == \E s \in Subs("volume") :
            VolumeScanner_is_in_cooldown(dicts, in.symbol, s, EvalNow, EvalCooldown)
    IN  IF in.volume_24h_usd < min_volume_24h
        THEN [gainers |-> <<>>, losers |-> <<>>]
        ELSE [gainers |->
                 IF in.gainers_enabled /\ in.change_pct > in.gainers_threshold
                    /\ ~Cooling("gainer")
                 THEN <<in.symbol>> ELSE <<>>,
              losers |->
                 IF in.losers_enabled /\ in.change_pct < 0 - in.losers_threshold
                    /\ ~Cooling("loser")
                 THEN <<in.symbol>> ELSE <<>>]

\* VolumeScanner.scan, loop body: what is appended to gainers and losers.
VolumeScanner_evaluate(in) ==
    LET dicts == DictsOf("volume", in.alerted)
        Cooling(a) ==
            VolumeScanner_is_in_cooldown(dicts, in.symbol, a, EvalNow, EvalCooldown)
    IN  IF in.volume_24h_usd < min_volume_24h
        THEN [gainers |-> <<>>, losers |-> <<>>]
        ELSE [gainers |->
                 IF in.gainers_enabled /\ in.change_pct > in.gainers_threshold
                    /\ ~Cooling("gainer")
                 THEN <<in.symbol>> ELSE <<>>,
              losers |->
                 IF in.losers_enabled /\ in.change_pct < 0 - in.losers_threshold
                    /\ ~Cooling("loser")
                 THEN <<in.symbol>> ELSE <<>>]

VolumeChanges == {0 - 11, 0 - 10, 0 - 9, 0, 9, 10, 11}

VolumeInputs ==
    [strategy : {"volume"}, symbol : {EvalSymbol}, change_pct : VolumeChanges,
     volume_24h_usd : {1, 2}, gainers_enabled : BOOLEAN, losers_enabled : BOOLEAN,
     gainers_threshold : {9, 10}, losers_threshold : {10},
     alerted : SUBSET Subs("volume")]

SeqMax(q) == CHOOSE x \in {q[i] : i \in DOMAIN q} : \A i \in DOMAIN q : q[i] <= x

SeqMin(q) == CHOOSE x \in {q[i] : i \in DOMAIN q} : \A i \in DOMAIN q : x <= q[i]

\* ATHATLScanner.calculate_ath_atl; a kline is <<high, low>> (k[2], k[3]),
\* a distance the quotient <<numerator, denominator>> of its percents.
calculate_ath_atl(klines, current_price) ==
    LET highs == [i \in DOMAIN klines |-> klines[i][1]]
        lows == [i \in DOMAIN klines |-> klines[i][2]]
        ath == SeqMax(highs)
        atl == SeqMin(lows)
    IN  [ath |-> ath,
         atl |-> atl,
         ath_distance_pct |-> <<(ath - current_price) * 100, ath>>,
         atl_distance_pct |-> <<(current_price - atl) * 100, atl>>]

\* ath_atl_data['ath_distance_pct'] <= self.proximity_threshold
near_ath(d, proximity_threshold) ==
    d.ath_distance_pct[1] <= proximity_threshold * d.ath_distance_pct[2]

\* ath_atl_data['atl_distance_pct'] >= -self.proximity_threshold
near_atl(d, proximity_threshold) ==
    d.atl_distance_pct[1] >= (0 - proximity_threshold) * d.atl_distance_pct[2]

\* ATHATLScanner.scan, loop body after calculate_ath_atl: what is appended
\* to ath_coins and atl_coins.
ATHATLScanner_evaluate(in) ==
    LET d == calculate_ath_atl(in.klines, in.current_price)
        dicts == DictsOf("ath_atl", in.alerted)
        Cooling(a) ==
            ATHATLScanner_is_in_cooldown(dicts, in.symbol, a, EvalNow, EvalCooldown)
    IN  [ath_coins |->
            IF in.ath_enabled /\ near_ath(d, in.proximity_threshold)
               /\ ~Cooling("ath")
            THEN <<[symbol |-> in.symbol, is_new |-> in.current_price >= d.ath]>>
            ELSE <<>>,
         atl_coins |->
            IF in.atl_enabled /\ near_atl(d, in.proximity_threshold)
               /\ ~Cooling("atl")
            THEN <<[symbol |-> in.symbol, is_new |-> in.current_price <= d.atl]>>
            ELSE <<>>]

\* The daily candles of the lookback, as <<high, low>>.
Candles == {<<200, 100>>, <<198, 102>>}

ExtremumPrices == {99, 100, 101, 102, 103, 150, 195, 196, 197, 198, 200, 201}

ExtremumInputs ==
    [strategy : {"ath_atl"}, symbol : {EvalSymbol},
     klines : [1..1 -> Candles] \cup [1..2 -> Candles],
     current_price : ExtremumPrices, proximity_threshold : {1, 2},
     ath_enabled : BOOLEAN, atl_enabled : BOOLEAN,
     alerted : SUBSET Subs("ath_atl")]

EvalInputs == EmaInputs \cup FlipInputs \cup VolumeInputs \cup ExtremumInputs

InitEval ==
    /\ evpc = "input"
    /\ evIn \in EvalInputs
    /\ evOut = <<>>
    /\ NoEma
    /\ NoBatch
    /\ NoAlert
    /\ NoStore
    /\ NoScan
    /\ mainpc = "off"
    /\ config = <<>>
    /\ scanners = <<>>
    /\ scanner_threads = <<>>
    /\ nUpd = 0
    /\ resp = "none"
    /\ initErr = FALSE
    /\ NoSel
    /\ NoCycle

EvaluateEma ==
    /\ evpc = "input"
    /\ evIn.strategy = "ema"
    /\ evOut' = EMAScanner_evaluate(evIn)
    /\ evpc' = "ema"
    /\ UNCHANGED <<evIn, emaVars, batchVars, alertVars, storeVars, scanVars, appVars, selVars, cycleVars>>

EvaluateFlip ==
    /\ evpc = "input"
    /\ evIn.strategy = "flip"
    /\ evOut' = DailyFlipScanner_evaluate(evIn)
    /\ evpc' = "flip"
    /\ UNCHANGED <<evIn, emaVars, batchVars, alertVars, storeVars, scanVars, appVars, selVars, cycleVars>>

EvaluateVolume ==
    /\ evpc = "input"
    /\ evIn.strategy = "volume"
    /\ evOut' = VolumeScanner_evaluate(evIn)
    /\ evpc' = "volume"
    /\ UNCHANGED <<evIn, emaVars, batchVars, alertVars, storeVars, scanVars, appVars, selVars, cycleVars>>

EvaluateExtremum ==
    /\ evpc = "input"
    /\ evIn.strategy = "ath_atl"
    /\ evOut' = ATHATLScanner_evaluate(evIn)
    /\ evpc' = "ath_atl"
    /\ UNCHANGED <<evIn, emaVars, batchVars, alertVars, storeVars, scanVars, appVars, selVars, cycleVars>>

NextEval ==
    \/ EvaluateExtremum
    \/ EvaluateEma
    \/ EvaluateFlip
    \/ EvaluateVolume

SpecEval == InitEval /\ [][NextEval]_vars

\* C25: for a symbol that is not in cooldown the EMA loop body appends a
\* candidate exactly when abs(price - ema60) / ema60 * 100 is strictly below
\* the threshold; the candidate is tagged "from above" when price > ema60
\* and "from below" otherwise; price 100, ema60 101, threshold 2 gives a
\* candidate tagged "from below".
C25_EmaProximity ==
    (evpc = "ema" /\ evIn.alerted = {}) =>
        LET p == evIn.current_price
            e == evIn.ema60
        IN  /\ (Len(evOut) = 1) <=> (Abs(p - e) * 100 < evIn.ema_touch_threshold * e)
            /\ Len(evOut) <= 1
            /\ Len(evOut) = 1 =>
                  /\ evOut[1].symbol = evIn.symbol
                  /\ p > e => evOut[1].approach_dir = "from above"
                  /\ p <= e => evOut[1].approach_dir = "from below"
            /\ (p = 100 /\ e = 101 /\ evIn.ema_touch_threshold = 2) =>
                  /\ Len(evOut) = 1
                  /\ evOut[1].approach_dir = "from below"

\* C25's case: the example of the claim has been evaluated (and a price
\* exactly at the threshold has its own state, with nothing appended).
C25_Witness ==
    /\ evpc = "ema"
    /\ evIn.alerted = {}
    /\ evIn.current_price = 100
    /\ evIn.ema60 = 101
    /\ evIn.ema_touch_threshold = 2
    /\ Len(evOut) = 1

\* C27: for a symbol that is not in cooldown the flip loop body appends a
\* candidate exactly when abs(change) is strictly below the configured
\* threshold percentage and the sign of the change matches the configured
\* flip type (any change for "both", a change above zero for green-to-red,
\* below zero for red-to-green); the tag is green-to-red (positive to
\* negative) when the change is above zero and red-to-green otherwise.
C27_RangeFlip ==
    (evpc = "flip" /\ evIn.alerted = {}) =>
        LET c == evIn.change_pct
            SignMatches == CASE evIn.flip_type = "both" -> TRUE
                             [] evIn.flip_type = "green_to_red" -> c > 0
                             [] evIn.flip_type = "red_to_green" -> c < 0
        IN  /\ (Len(evOut) = 1) <=> (Abs(c) < evIn.flip_threshold /\ SignMatches)
            /\ Len(evOut) <= 1
            /\ Len(evOut) = 1 =>
                  /\ evOut[1].symbol = evIn.symbol
                  /\ c > 0 => evOut[1].flip_direction = "green_to_red"
                  /\ c <= 0 => evOut[1].flip_direction = "red_to_green"

\* C27's case: a change of -1% under a threshold of 2% and flip type
\* red-to-green has been evaluated and appended.
C27_Witness ==
    /\ evpc = "flip"
    /\ evIn.alerted = {}
    /\ evIn.change_pct = 0 - 1
    /\ evIn.flip_threshold = 2
    /\ evIn.flip_type = "red_to_green"
    /\ Len(evOut) = 1
    /\ evOut[1].flip_direction = "red_to_green"

\* C28: a symbol passing the volume floor is appended to the gainers (the
\* gainer sub-kind being enabled) exactly when its change is above
\* gainers_threshold and the symbol is not in the gainer cooldown, and to
\* the losers (the loser sub-kind being enabled) exactly when its change is
\* below -losers_threshold and the symbol is not in the loser cooldown: a
\* change equal to a threshold appends nothing, and the record of the other
\* sub-kind plays no part.
C28_VolumeMomentum ==
    (evpc = "volume" /\ evIn.volume_24h_usd >= min_volume_24h) =>
        /\ evIn.gainers_enabled =>
             ((evOut.gainers = <<evIn.symbol>>) <=>
                 (evIn.change_pct > evIn.gainers_threshold /\ "gainer" \notin evIn.alerted))
        /\ evIn.losers_enabled =>
             ((evOut.losers = <<evIn.symbol>>) <=>
                 (evIn.change_pct < 0 - evIn.losers_threshold /\ "loser" \notin evIn.alerted))
        /\ evOut.gainers \in {<<>>, <<evIn.symbol>>}
        /\ evOut.losers \in {<<>>, <<evIn.symbol>>}
        /\ (evIn.change_pct = evIn.gainers_threshold
             \/ evIn.change_pct = 0 - evIn.losers_threshold) =>
               (evOut.gainers = <<>> /\ evOut.losers = <<>>)

\* C28's case: a loser alert is appended for a symbol whose gainer record is
\* an hour old.
C28_Witness ==
    /\ evpc = "volume"
    /\ evIn.alerted = {"gainer"}
    /\ evIn.losers_enabled
    /\ evIn.change_pct = 0 - 11
    /\ evOut.losers = <<evIn.symbol>>
    /\ evOut.gainers = <<>>

\* The high and the low of the lookback of the evaluated symbol.
HighOf(in) == SeqMax([i \in DOMAIN in.klines |-> in.klines[i][1]])

LowOf(in) == SeqMin([i \in DOMAIN in.klines |-> in.klines[i][2]])

\* C26: with distanceFromHigh = (high - price) / high * 100 and
\* distanceFromLow = (price - low) / low * 100, the loop body appends a high
\* alert exactly when distanceFromHigh <= threshold and a low alert exactly
\* when distanceFromLow <= threshold (the sub-kind enabled, the symbol not
\* in its cooldown); the new-extremum flag is set exactly when
\* price >= high, respectively price <= low.
C26_ExtremumProximity ==
    evpc = "ath_atl" =>
        LET price == evIn.current_price
            high == HighOf(evIn)
            low == LowOf(evIn)
        IN  /\ (evIn.ath_enabled /\ "ath" \notin evIn.alerted) =>
                 /\ (Len(evOut.ath_coins) = 1) <=>
                        ((high - price) * 100 <= evIn.proximity_threshold * high)
                 /\ Len(evOut.ath_coins) = 1 =>
                        (evOut.ath_coins[1].is_new <=> price >= high)
            /\ (evIn.atl_enabled /\ "atl" \notin evIn.alerted) =>
                 /\ (Len(evOut.atl_coins) = 1) <=>
                        ((price - low) * 100 <= evIn.proximity_threshold * low)
                 /\ Len(evOut.atl_coins) = 1 =>
                        (evOut.atl_coins[1].is_new <=> price <= low)

\* ================================================================= SpecEma
\* calculate_ema and fetch_klines_and_calculate_ema on the closes of a
\* symbol. A Python float is a binary floating-point number: here
\* <<m, e>> stands for m * 2^e, with a significand of MantBits bits (53 in
\* the program), every operation rounded to the nearest, ties to even.

MantBits == 8

\* The closes of the series are the floats (2^(MantBits-1) + i) * 2^0.
MaxPriceStep == 15

\* The periods and lengths calculate_ema is called with, alone.
MaxPeriod == 10

MaxExtra == 3

None == <<>>

\* The number of bits of a positive integer.
BitLen(n) == CHOOSE k \in 1..30 : 2^(k - 1) <= n /\ n < 2^k

\* The float nearest to n * 2^e (ties to even).
fl(n, e) ==
    IF n = 0 THEN <<0, 0>>
    ELSE LET a == Abs(n)
             sign == IF n < 0 THEN 0 - 1 ELSE 1
             k == BitLen(a) - MantBits
         IN  IF k <= 0 THEN <<n * 2^(0 - k), e + k>>
             ELSE LET q == a \div 2^k
                      r == a % 2^k
                      half == 2^(k - 1)
                      q2 == IF r > half \/ (r = half /\ q % 2 = 1) THEN q + 1 ELSE q
                  IN  IF q2 = 2^MantBits
                      THEN <<sign * 2^(MantBits - 1), e + k + 1>>
                      ELSE <<sign * q2, e + k>>

\* float(int)
from_int(n) == fl(n, 0)

\* a + b; an operand below a quarter of the other's last place is absorbed.
fadd(a, b) ==
    IF a[1] = 0 THEN b
    ELSE IF b[1] = 0 THEN a
    ELSE LET e == Min(a[2], b[2])
         IN  IF a[2] - e > MantBits + 2 THEN a
             ELSE IF b[2] - e > MantBits + 2 THEN b
             ELSE fl(a[1] * 2^(a[2] - e) + b[1] * 2^(b[2] - e), e)

\* a - b
fsub(a, b) == fadd(a, <<0 - b[1], b[2]>>)

\* a * b
fmul(a, b) == fl(a[1] * b[1], a[2] + b[2])

\* a / b (b not zero): the quotient to MantBits + 2 bits and a sticky bit.
fdiv(a, b) ==
    IF a[1] = 0 THEN <<0, 0>>
    ELSE LET sign == IF (a[1] < 0) = (b[1] < 0) THEN 1 ELSE 0 - 1
             num == Abs(a[1]) * 2^(MantBits + 2)
             q == num \div Abs(b[1])
             sticky == IF num % Abs(b[1]) = 0 THEN 0 ELSE 1
         IN  fl(sign * (2 * q + sticky), a[2] - b[2] - (MantBits + 2) - 1)

\* a <= b, for floats whose exponents are close
fle(a, b) ==
    LET e == Min(a[2], b[2])
    IN  a[1] * 2^(a[2] - e) <= b[1] * 2^(b[2] - e)

\* ema = sum(prices[:period]) / period, from the sum
sma_short(total, period) == fdiv(total, from_int(period + 1))

sma(total, period) == fdiv(total, from_int(period))

\* multiplier = 2 / (period + 1)
multiplier_of(period) == fdiv(from_int(2), from_int(period + 1))

\* ema = (price - ema) * multiplier + ema
ema_step(price, ema, multiplier) == fadd(fmul(fsub(price, ema), multiplier), ema)

\* str(t) of a timestamp below 1000: its decimal digits.
str(t) ==
    IF t < 10 THEN <<t>>
    ELSE IF t < 100 THEN <<t \div 10, t % 10>>
    ELSE <<t \div 100, (t \div 10) % 10, t % 10>>

\* int(x[0]): the number the digits write.
int(x) ==
    CASE Len(x) = 1 -> x[1]
      [] Len(x) = 2 -> x[1] * 10 + x[2]
      [] Len(x) = 3 -> x[1] * 100 + x[2] * 10 + x[3]

\* The mutant of earlier used by the check of C32: the timestamps are
\* compared as the strings they arrive as (key=lambda x: x[0]).
earlier_as_text(a, b) ==
    \E i \in 1..Len(b.t) :
        /\ \A j \in 1..(i - 1) : j <= Len(a.t) /\ a.t[j] = b.t[j]
        /\ (i > Len(a.t) \/ a.t[i] < b.t[i])

\* klines.sort(key=lambda x: int(x[0])): ascending by timestamp, stable.
earlier(a, b) == int(a.t) < int(b.t)

sort_by_timestamp(klines) == SortSeq(klines, earlier)

\* if len(klines) < 223: return None
MinKlines == 223

\* ema5, ema10, ema60, ema223: the periods calculate_ema is called with
EmaPeriods == <<5, 10, 60, 223>>

Prices == {<<2^(MantBits - 1) + i, 0>> : i \in 0..MaxPriceStep}

\* A series of n closes at one price.
Constant(price, n) == [i \in 1..n |-> price]

CalcInputs ==
    {[fn |-> "calculate_ema", prices |-> Constant(price, n), period |-> period] :
        price \in Prices, n \in 0..(MaxPeriod + MaxExtra), period \in 1..MaxPeriod}

\* The lengths of the kline lists answered (limit=250 is asked for).
KlineCounts == {4, 5, 10, 59, 60, 222, 223, 224}

FetchPrices == {<<2^(MantBits - 1) + i, 0>> : i \in {0, MaxPriceStep}}

\* The orders a response lists the n klines in: the open time at position i.
\* The exchange lists them newest first.
KlineOrders == {"newest_first", "oldest_first", "rotated", "swapped"}

open_time(order, n, i) ==
    CASE order = "newest_first" -> n + 1 - i
      [] order = "oldest_first" -> i
      [] order = "rotated" -> ((i + 6) % n) + 1
      [] order = "swapped" -> IF i % 2 = 1 THEN (IF i < n THEN i + 1 ELSE i) ELSE i - 1

\* The close of the candle opened at t: one price, or a price that moves.
KlineShapes == {"flat", "moving"}

close_at(price, shape, t) ==
    IF shape = "flat" THEN price ELSE <<price[1] + ((t * t) % 5), price[2]>>

\* A kline: [startTime, ..., closePrice, ...], the start time a string.
Klines(price, n, order, shape) ==
    [i \in 1..n |-> [t |-> str(open_time(order, n, i)),
                     close |-> close_at(price, shape, open_time(order, n, i))]]

\* The responses: of every length and outcome with one price, newest
\* first; and, long enough for the EMAs, in every order with a moving price.
FetchInputs ==
    {[fn |-> "fetch_klines_and_calculate_ema", outcome |-> o,
      klines |-> Klines(price, n, "newest_first", "flat")] :
        o \in {"ok", "retCode"} \cup FetchErrors, price \in FetchPrices,
        n \in KlineCounts}
    \cup
    {[fn |-> "fetch_klines_and_calculate_ema", outcome |-> "ok",
      klines |-> Klines(<<2^(MantBits - 1), 0>>, n, order, "moving")] :
        n \in {MinKlines, MinKlines + 1}, order \in KlineOrders}

EmaFnInputs == CalcInputs \cup FetchInputs

\* The locals of the two functions: the closes, the periods still to
\* compute, the EMAs and first values by period, and in calculate_ema the
\* period, the position in prices, the running sum, the multiplier and ema.
NoLocals ==
    [closes |-> <<>>, todo |-> <<>>, emas |-> <<>>, seeds |-> <<>>,
     period |-> 0, i |-> 0, total |-> <<0, 0>>, multiplier |-> <<0, 0>>,
     ema |-> None, ret |-> None]

InitEma ==
    /\ emapc = "input"
    /\ emaIn \in EmaFnInputs
    /\ emaOut = NoLocals
    /\ NoEval
    /\ NoBatch
    /\ NoAlert
    /\ NoStore
    /\ NoScan
    /\ mainpc = "off"
    /\ config = <<>>
    /\ scanners = <<>>
    /\ scanner_threads = <<>>
    /\ nUpd = 0
    /\ resp = "none"
    /\ initErr = FALSE
    /\ NoSel
    /\ NoCycle

\* calculate_ema is called on its own.
CallCalculateEma ==
    /\ emapc = "input"
    /\ emaIn.fn = "calculate_ema"
    /\ emaOut' = [emaOut EXCEPT !.closes = emaIn.prices, !.todo = <<emaIn.period>>]
    /\ emapc' = "call"
    /\ UNCHANGED <<emaIn, evalVars, batchVars, alertVars, storeVars, scanVars, appVars, selVars, cycleVars>>

\* fetch_klines_and_calculate_ema up to the first call of calculate_ema:
\* None after an exception (the except block), a retCode other than 0 or
\* fewer than 223 klines; else the klines are sorted and the closes taken.
FetchKlines ==
    /\ emapc = "input"
    /\ emaIn.fn = "fetch_klines_and_calculate_ema"
    /\ IF \/ emaIn.outcome \in FetchErrors
          \/ emaIn.outcome = "retCode"
          \/ Len(emaIn.klines) < MinKlines
       THEN /\ emapc' = "returned"
            /\ emaOut' = emaOut
       ELSE /\ emapc' = "call"
            /\ \E klines \in {sort_by_timestamp(emaIn.klines)} :
                   emaOut' = [emaOut EXCEPT
                                 !.closes = [i \in DOMAIN klines |-> klines[i].close],
                                 !.todo = EmaPeriods]
    /\ UNCHANGED <<emaIn, evalVars, batchVars, alertVars, storeVars, scanVars, appVars, selVars, cycleVars>>

\* calculate_ema(closes, period), up to the sum: None when the series is
\* shorter than the period.
EnterCalculateEma ==
    /\ emapc = "call"
    /\ LET period == Head(emaOut.todo)
       IN  IF Len(emaOut.closes) < period
           THEN /\ emaOut' = [emaOut EXCEPT
                                 !.emas = [q \in DOMAIN @ \cup {period} |->
                                              IF q = period THEN None ELSE @[q]],
                                 !.todo = Tail(@)]
                /\ emapc' = IF Tail(emaOut.todo) = <<>> THEN "finish" ELSE "call"
           ELSE /\ emaOut' = [emaOut EXCEPT
                                 !.period = period,
                                 !.multiplier = multiplier_of(period),
                                 !.total = from_int(0),
                                 !.i = 1]
                /\ emapc' = "sum"
    /\ UNCHANGED <<emaIn, evalVars, batchVars, alertVars, storeVars, scanVars, appVars, selVars, cycleVars>>

\* sum(prices[:period]): the builtin adds from 0, left to right; after the
\* last addition, ema = sum / period.
SumStep ==
    /\ emapc = "sum"
    /\ LET total == fadd(emaOut.total, emaOut.closes[emaOut.i])
       IN  IF emaOut.i < emaOut.period
           THEN /\ emaOut' = [emaOut EXCEPT !.total = total, !.i = @ + 1]
                /\ emapc' = "sum"
           ELSE /\ emaOut' = [emaOut EXCEPT
                                 !.total = total,
                                 !.i = @ + 1,
                                 !.ema = sma(total, emaOut.period),
                                 !.seeds = [q \in DOMAIN @ \cup {emaOut.period} |->
                                               IF q = emaOut.period
                                               THEN sma(total, emaOut.period)
                                               ELSE @[q]]]
                /\ emapc' = "loop"
    /\ UNCHANGED <<emaIn, evalVars, batchVars, alertVars, storeVars, scanVars, appVars, selVars, cycleVars>>

\* for price in prices[period:]: one iteration; after the last, return ema.
EmaStep ==
    /\ emapc = "loop"
    /\ IF emaOut.i <= Len(emaOut.closes)
       THEN /\ emaOut' = [emaOut EXCEPT
                             !.ema = ema_step(emaOut.closes[emaOut.i], @, emaOut.multiplier),
                             !.i = @ + 1]
            /\ emapc' = "loop"
       ELSE /\ emaOut' = [emaOut EXCEPT
                             !.emas = [q \in DOMAIN @ \cup {emaOut.period} |->
                                          IF q = emaOut.period THEN emaOut.ema ELSE @[q]],
                             !.todo = Tail(@)]
            /\ emapc' = IF Tail(emaOut.todo) = <<>> THEN "finish" ELSE "call"
    /\ UNCHANGED <<emaIn, evalVars, batchVars, alertVars, storeVars, scanVars, appVars, selVars, cycleVars>>

\* What fetch_klines_and_calculate_ema returns after the four calls:
\* "if ema60 is None: return None", else the last close, its distance from
\* EMA 60 and the four EMAs.
ema_data(closes, emas) ==
    IF emas[60] = None THEN None
    ELSE LET current_price == closes[Len(closes)]
             d == fmul(fdiv(fsub(current_price, emas[60]), emas[60]), from_int(100))
         IN  [current_price |-> current_price,
              ema60 |-> emas[60],
              distance_pct |-> <<Abs(d[1]), d[2]>>,
              ema5 |-> emas[5],
              ema10 |-> emas[10],
              ema223 |-> emas[223]]

\* The value goes to the caller.
ReturnEma ==
    /\ emapc = "finish"
    /\ emaOut' = [emaOut EXCEPT !.ret =
                      IF emaIn.fn = "calculate_ema"
                      THEN emaOut.emas[emaIn.period]
                      ELSE ema_data(emaOut.closes, emaOut.emas)]
    /\ emapc' = "returned"
    /\ UNCHANGED <<emaIn, evalVars, batchVars, alertVars, storeVars, scanVars, appVars, selVars, cycleVars>>

NextEma ==
    \/ CallCalculateEma
    \/ FetchKlines
    \/ EnterCalculateEma
    \/ SumStep
    \/ EmaStep
    \/ ReturnEma

SpecEma == InitEma /\ [][NextEma]_vars

\* calculate_ema has returned for a series of one price that is not shorter
\* than the period.
ConstantDone ==
    /\ emapc = "returned"
    /\ emaIn.fn = "calculate_ema"
    /\ Len(emaIn.prices) >= emaIn.period

\* C23 as stated: the EMA of a series of one price, of any period up to the
\* length of the series, is that price.
C23_FixedPoint ==
    ConstantDone => emaOut.ret = emaIn.prices[1]

\* C23, amended: the EMA of a series of one price lies between the mean
\* the code computes of the first period closes and the price; it is the
\* price when that mean is the price, and it is never further from the
\* price than period * 2^-(MantBits - 1) times the price.
C23_FixedPointRounded ==
    ConstantDone =>
        LET price == emaIn.prices[1]
            seed == emaOut.seeds[emaIn.period]
            ema == emaOut.ret
            err == fsub(ema, price)
        IN  /\ ema # None
            /\ (fle(seed, ema) /\ fle(ema, price))
                 \/ (fle(price, ema) /\ fle(ema, seed))
            /\ seed = price => ema = price
            /\ fle(<<Abs(err[1]) * 2^(MantBits - 1), err[2]>>,
                   <<emaIn.period * price[1], price[2]>>)

\* C23's case: the mean of the first closes was rounded away from the
\* price, closes followed, and the EMA returned is not the price.
C23_Witness ==
    /\ ConstantDone
    /\ Len(emaIn.prices) > emaIn.period
    /\ emaOut.seeds[emaIn.period] # emaIn.prices[1]
    /\ emaOut.ret # emaIn.prices[1]

\* The EMA of a period that the scanner has for the symbol after the call
\* (None: none).
EmaOf(out, period) ==
    IF out = None THEN None
    ELSE CASE period = 5 -> out.ema5
           [] period = 10 -> out.ema10
           [] period = 60 -> out.ema60
           [] period = 223 -> out.ema223

\* C24: for a kline list that was fetched, the EMA of each of the periods
\* 5, 10, 60 and 223 is missing exactly when the list has fewer closes than
\* the period: a list too short for one period still has the EMA of every
\* shorter period.
C24_InsufficientData ==
    (emapc = "returned" /\ emaIn.fn = "fetch_klines_and_calculate_ema"
        /\ emaIn.outcome = "ok") =>
        \A period \in {5, 10, 60, 223} :
            (EmaOf(emaOut.ret, period) = None) <=> (Len(emaIn.klines) < period)

\* The close of the candle opened at t in the klines of the response.
CloseOf(klines, t) ==
    klines[CHOOSE i \in 1..Len(klines) : int(klines[i].t) = t].close

\* The response had klines enough, and the function has just sorted them
\* and taken the closes, or has returned.
Sorted ==
    /\ emaIn.fn = "fetch_klines_and_calculate_ema"
    /\ emaIn.outcome = "ok"
    /\ Len(emaIn.klines) >= MinKlines
    /\ \/ emapc = "call" /\ emaOut.todo = EmaPeriods
       \/ emapc = "returned"

\* C32: in whatever order the response lists the candles, the closes the
\* EMAs are computed from are the closes in ascending order of open time,
\* and the current price returned is the close of the latest candle. (The
\* four EMAs are computed from that list of closes alone.)
C32_AscendingTimeOrder ==
    Sorted =>
        /\ emaOut.closes = [t \in 1..Len(emaIn.klines) |-> CloseOf(emaIn.klines, t)]
        /\ (emapc = "returned" /\ emaOut.ret # None) =>
              /\ emaOut.ret.current_price = CloseOf(emaIn.klines, Len(emaIn.klines))
              /\ \A period \in {5, 10, 60, 223} :
                    EmaOf(emaOut.ret, period) = emaOut.emas[period]

\* C32's case: a response that lists the candles neither oldest first nor
\* newest first, with closes that move, has been sorted and its EMAs
\* returned.
C32_Witness ==
    /\ Sorted
    /\ emapc = "returned"
    /\ emaOut.ret # None
    /\ int(emaIn.klines[1].t) \notin {1, Len(emaIn.klines)}
    /\ \E i \in 1..Len(emaIn.klines) : emaIn.klines[i].close # emaIn.klines[1].close
    /\ [i \in 1..Len(emaIn.klines) |-> emaIn.klines[i].close] # emaOut.closes

\* =============================================================== SpecBatch
\* One scan() of a strategy over the tickers of a response: the loop that
\* builds all_pairs, the two slices, and the loop over pairs_to_analyze with
\* its request of the klines of each pair. (VolumeScanner has one loop, over
\* every pair.) Every symbol ends in USDT; cooldowns, the cut of the result
\* and the dispatch are left out.

MaxBatch == 3

BatchTopNs == {1}

\* The ticker has no such key.
NoKey == 0 - 1

BatchSymbols == <<"AUSDT", "BUSDT", "CUSDT", "DUSDT">>

\* if len(klines) < 30:  # Need at least 30 days of data
MinCandles == 30

\* What a ticker and the klines request of its symbol can be like:
\* lastPrice (NoKey: no such key), prevPrice24h, the outcome of the
\* klines request, the number of candles it returns, and whether the
\* strategy's test holds of the symbol.
Profile(p, q, o, c, n) ==
    [lastPrice |-> p, prevPrice24h |-> q, klines |-> o, candles |-> c, near |-> n]

\* The profiles that differ for the strategy: only DailyFlipScanner reads
\* prevPrice24h, only EMAScanner and ATHATLScanner request klines.
Entries(k) ==
    {Profile(1, 1, "ok", MinKlines, TRUE), Profile(1, 1, "ok", MinKlines, FALSE),
     Profile(NoKey, 1, "ok", MinKlines, TRUE), Profile(0, 1, "ok", MinKlines, TRUE)}
    \cup (IF k = "flip" THEN {Profile(1, 0, "ok", MinKlines, TRUE)} ELSE {})
    \cup (IF k \in {"ema", "ath_atl"}
          THEN {Profile(1, 1, "exception", 0, TRUE), Profile(1, 1, "timeout", 0, TRUE)}
          ELSE {})
    \cup (IF k = "ema" THEN {Profile(1, 1, "ok", MinKlines - 1, TRUE)} ELSE {})
    \cup (IF k = "ath_atl"
          THEN {Profile(1, 1, "ok", MinCandles - 1, TRUE),
                Profile(1, 1, "ok", MinCandles, TRUE)}
          ELSE {})

\* The i-th ticker of a response of n: volume24h is min_volume_24h, and the
\* tickers are listed by falling change.
BatchTicker(i, n, e) ==
    [symbol |-> BatchSymbols[i], volume24h |-> min_volume_24h,
     lastPrice |-> e.lastPrice, prevPrice24h |-> e.prevPrice24h,
     change_pct |-> n - i, klines |-> e.klines, candles |-> e.candles,
     near |-> e.near]

\* item.get('lastPrice', 0)
get_lastPrice(item) == IF item.lastPrice = NoKey THEN 0 ELSE item.lastPrice

\* The body of the loop that builds all_pairs, for one ticker: "raise" (an
\* exception leaves the loop), "skip" (continue) or "keep" (append).
\* EMAScanner and DailyFlipScanner read lastPrice with .get for the volume;
\* DailyFlipScanner then divides by prevPrice24h; ATHATLScanner and
\* VolumeScanner read item['lastPrice'] first.
filter_item(k, item) ==
    CASE k = "ema" ->
           IF below_min_volume(item.volume24h * get_lastPrice(item))
           THEN "skip" ELSE "keep"
      [] k = "flip" ->
           IF below_min_volume(item.volume24h * get_lastPrice(item)) THEN "skip"
           ELSE IF item.prevPrice24h = 0 THEN "raise"
           ELSE "keep"
      [] k \in {"ath_atl", "volume"} ->
           IF item.lastPrice = NoKey THEN "raise"
           ELSE IF below_min_volume(item.volume24h * item.lastPrice) THEN "skip"
           ELSE "keep"

\* The mutant of pairs_to_analyze_of used by the check of C22: every pair.
pairs_to_analyze_all(pairs, n) == pairs

\* pairs_to_analyze = top_10_gainers + top_10_losers, of the sorted pairs
pairs_to_analyze_of(pairs, n) ==
    first_n(pairs, n) \o top_losers_of(pairs, n)

\* The strategy requests the klines of each pair it evaluates.
fetches_klines(k) == k \in {"ema", "ath_atl"}

\* The mutant of fetch_historical_data used by the check of C31: a series of
\* any length is returned.
fetch_historical_data_any(pair) ==
    IF pair.klines \in FetchErrors THEN "None" ELSE "data"

\* fetch_historical_data: None when the request raises (the except block)
\* or the series has fewer than 30 candles, else the klines.
fetch_historical_data(pair) ==
    IF pair.klines \in FetchErrors THEN "None"
    ELSE IF pair.candles < MinCandles THEN "None"
    ELSE "data"

\* fetch_klines_and_calculate_ema: None when the request raises or the
\* series has fewer than 223 candles, else the EMA data.
fetch_klines_and_calculate_ema(pair) ==
    IF pair.klines \in FetchErrors THEN "None"
    ELSE IF pair.candles < MinKlines THEN "None"
    ELSE "data"

\* What the loop over pairs_to_analyze has of the pair before its test.
data_of(k, pair) ==
    CASE k = "ath_atl" -> fetch_historical_data(pair)
      [] k = "ema" -> fetch_klines_and_calculate_ema(pair)
      [] OTHER -> "data"

BatchInputs ==
    UNION {UNION {{[kind |-> k, top_n |-> t,
                    list |-> [i \in 1..n |-> BatchTicker(i, n, e[i])]] :
                       t \in BatchTopNs, e \in [1..n -> Entries(k)]} :
                  n \in 0..MaxBatch} :
           k \in KindNames}

InitBatch ==
    /\ bpc = "filter"
    /\ bIn \in BatchInputs
    /\ bLoc = [all_pairs |-> <<>>, pairs_to_analyze |-> <<>>, i |-> 1,
               found |-> <<>>, analyzed |-> <<>>, fetches |-> 0, raised |-> FALSE]
    /\ NoEval
    /\ NoEma
    /\ NoAlert
    /\ NoStore
    /\ NoScan
    /\ mainpc = "off"
    /\ config = <<>>
    /\ scanners = <<>>
    /\ scanner_threads = <<>>
    /\ nUpd = 0
    /\ resp = "none"
    /\ initErr = FALSE
    /\ NoSel
    /\ NoCycle

\* for item in data['result']['list']: one iteration. In VolumeScanner the
\* same iteration evaluates the pair.
BatchFilter ==
    /\ bpc = "filter"
    /\ IF bLoc.i > Len(bIn.list)
       THEN /\ bpc' = IF bIn.kind = "volume" THEN "return" ELSE "select"
            /\ bLoc' = bLoc
       ELSE LET item == bIn.list[bLoc.i]
                what == filter_item(bIn.kind, item)
            IN  CASE what = "raise" ->
                       /\ bpc' = "except"
                       /\ bLoc' = [bLoc EXCEPT !.raised = TRUE]
                  [] what = "skip" ->
                       /\ bpc' = "filter"
                       /\ bLoc' = [bLoc EXCEPT !.i = @ + 1]
                  [] what = "keep" ->
                       /\ bpc' = "filter"
                       /\ bLoc' = [bLoc EXCEPT
                             !.i = @ + 1,
                             !.all_pairs = Append(@, item),
                             !.analyzed = IF bIn.kind = "volume"
                                          THEN Append(@, item.symbol) ELSE @,
                             !.found = IF bIn.kind = "volume" /\ item.near
                                       THEN Append(@, item.symbol) ELSE @]
    /\ UNCHANGED <<bIn, evalVars, emaVars, alertVars, storeVars, scanVars, appVars, selVars, cycleVars>>

\* all_pairs.sort(...), the two slices and pairs_to_analyze; EMAScanner
\* prints top_10_gainers[0], which raises on an empty list.
BatchSelect ==
    /\ bpc = "select"
    /\ IF bIn.kind = "ema" /\ bLoc.all_pairs = <<>>
       THEN /\ bpc' = "except"
            /\ bLoc' = [bLoc EXCEPT !.raised = TRUE]
       ELSE /\ bpc' = "evaluate"
            /\ bLoc' = [bLoc EXCEPT
                  !.all_pairs = sort_reverse(@),
                  !.pairs_to_analyze =
                      pairs_to_analyze_of(sort_reverse(bLoc.all_pairs), bIn.top_n),
                  !.i = 1]
    /\ UNCHANGED <<bIn, evalVars, emaVars, alertVars, storeVars, scanVars, appVars, selVars, cycleVars>>

\* for pair in pairs_to_analyze: one iteration. The klines request is made
\* inside a function that catches its exceptions and returns None, and the
\* loop goes on ("if not ema_data: continue", "if not klines: continue").
BatchEvaluate ==
    /\ bpc = "evaluate"
    /\ IF bLoc.i > Len(bLoc.pairs_to_analyze)
       THEN /\ bpc' = "return"
            /\ bLoc' = bLoc
       ELSE LET pair == bLoc.pairs_to_analyze[bLoc.i]
                data == data_of(bIn.kind, pair)
            IN  /\ bpc' = "evaluate"
                /\ bLoc' = [bLoc EXCEPT
                      !.i = @ + 1,
                      !.analyzed = Append(@, pair.symbol),
                      !.fetches = IF fetches_klines(bIn.kind) THEN @ + 1 ELSE @,
                      !.found = IF data = "data" /\ pair.near
                                THEN Append(@, pair.symbol) ELSE @]
    /\ UNCHANGED <<bIn, evalVars, emaVars, alertVars, storeVars, scanVars, appVars, selVars, cycleVars>>

\* scan(): "except Exception as e: ... return []" (return {})
BatchExcept ==
    /\ bpc = "except"
    /\ bpc' = "returned"
    /\ bLoc' = [bLoc EXCEPT !.found = <<>>]
    /\ UNCHANGED <<bIn, evalVars, emaVars, alertVars, storeVars, scanVars, appVars, selVars, cycleVars>>

\* scan(): return found (return result)
BatchReturn ==
    /\ bpc = "return"
    /\ bpc' = "returned"
    /\ bLoc' = bLoc
    /\ UNCHANGED <<bIn, evalVars, emaVars, alertVars, storeVars, scanVars, appVars, selVars, cycleVars>>

NextBatch ==
    \/ BatchFilter
    \/ BatchSelect
    \/ BatchEvaluate
    \/ BatchExcept
    \/ BatchReturn

SpecBatch == InitBatch /\ [][NextBatch]_vars

\* The ticker is well formed: it has a price, and no price the strategy
\* reads of it is zero.
WellFormed(item) ==
    /\ item.lastPrice # NoKey
    /\ item.lastPrice # 0
    /\ bIn.kind = "flip" => item.prevPrice24h # 0

\* What the cycle is to evaluate and to find when a symbol that fails is
\* skipped alone: the well-formed tickers are ranked and sliced (all of them,
\* for the volume strategy), and a pair is found when the strategy's test
\* holds of it and its klines, if the strategy asks for them, arrived.
DuePairs ==
    LET kept == sort_reverse(SelectSeq(bIn.list, WellFormed))
    IN  IF bIn.kind = "volume" THEN kept
        ELSE first_n(kept, bIn.top_n) \o top_losers_of(kept, bIn.top_n)

DueFound ==
    LET Hit(pair) ==
            /\ pair.near
            /\ fetches_klines(bIn.kind) => pair.klines = "ok"
            /\ bIn.kind = "ema" => pair.candles >= MinKlines
            /\ bIn.kind = "ath_atl" => pair.candles >= MinCandles
        hits == SelectSeq(DuePairs, Hit)
    IN  [i \in 1..Len(hits) |-> hits[i].symbol]

\* C21: when a symbol fails (its klines request raises or times out, its
\* ticker lacks the price or has a zero price), scan() skips that symbol
\* alone: the other symbols of the cycle are all evaluated, and those the
\* strategy's test holds of are found.
C21_SymbolSkippedAlone ==
    bpc = "returned" =>
        /\ bLoc.analyzed = [i \in 1..Len(DuePairs) |-> DuePairs[i].symbol]
        /\ bLoc.found = DueFound

\* The two slices of the ranked pairs.
C22_Slices ==
    first_n(bLoc.all_pairs, bIn.top_n) \o top_losers_of(bLoc.all_pairs, bIn.top_n)

C31_ShortSeriesExcluded ==
    (bpc = "returned" /\ bIn.kind = "ath_atl") =>
        LET Full(pair) == pair.klines = "ok" /\ pair.candles >= 30 /\ pair.near
            due == SelectSeq(bLoc.pairs_to_analyze, Full)
        IN  IF bLoc.raised
            THEN \E i \in 1..Len(bIn.list) : ~WellFormed(bIn.list[i])
            ELSE /\ Len(bLoc.analyzed) = Len(bLoc.pairs_to_analyze)
                 /\ bLoc.found = [i \in 1..Len(due) |-> due[i].symbol]

\* C31's case: a cycle of the extremum strategy has evaluated a pair with 29
\* candles and a pair with 30, and has found the second alone.
C31_Witness ==
    /\ bpc = "returned"
    /\ bIn.kind = "ath_atl"
    /\ ~bLoc.raised
    /\ \E i, j \in 1..Len(bLoc.pairs_to_analyze) :
          /\ bLoc.pairs_to_analyze[i].candles = 29
          /\ bLoc.pairs_to_analyze[i].near
          /\ bLoc.pairs_to_analyze[j].candles = 30
          /\ bLoc.found = <<bLoc.pairs_to_analyze[j].symbol>>

\* =============================================================== SpecAlert
\* One scan() of a strategy from the request of the tickers to its return,
\* with the pairs that pass the filter given in ranking order: the loop that
\* tests each pair against the cooldown dictionaries, the cut of the result,
\* mark_alerted of each coin of the result and send_alert.

MaxAlertPairs == 3

AlertSymbols == <<"AUSDT", "BUSDT", "CUSDT", "DUSDT">>

\* max_coins_per_alert (max_coins for DailyFlipScanner)
MaxCoins == {1, 2}

\* The sub-kinds the tests of the strategy can hold of one pair; a pair is
\* not a gainer and a loser at once.
Marks(k) ==
    CASE k = "ema" -> {{}, {"ema"}}
      [] k = "flip" -> {{}, {"flip"}}
      [] k = "volume" -> {{}, {"gainer"}, {"loser"}}
      [] k = "ath_atl" -> SUBSET {"ath", "atl"}

\* The i-th of n pairs, listed by falling change.
AlertPair(i, n, m) ==
    [symbol |-> AlertSymbols[i], change_pct |-> n - i, near |-> m]

\* What goes wrong in the cycle: nothing; the request of the tickers raises;
\* the loop raises at its last pair; open() of the cooldown file fails.
Faults == {"none", "fetch", "evaluate", "denied"}

\* No loser is listed before a gainer.
Falling(m, n) ==
    \A i, j \in 1..n : i < j => ~("loser" \in m[i] /\ "gainer" \in m[j])

AlertInputs ==
    UNION {UNION {{[kind |-> k, top_n |-> t, max_coins |-> c,
                    cooldown_hours |-> EvalCooldown, alerted |-> a, fault |-> f,
                    pairs |-> [i \in 1..n |-> AlertPair(i, n, m[i])]] :
                       t \in BatchTopNs, c \in MaxCoins,
                       a \in {{}} \cup {{x} : x \in Subs(k)}, f \in Faults,
                       m \in {x \in [1..n -> Marks(k)] : Falling(x, n)}} :
                  n \in 0..MaxAlertPairs} :
           k \in KindNames}

\* The cooldown file that holds the dictionary.
FileOf(d) ==
    IF d = EmptyDict THEN MissingFile
    ELSE [state |-> "ok", data |-> _save_cooldown_data(d)]

\* The empty result: [] or {}.
NoCoins(k) == [x \in Subs(k) |-> <<>>]

InitAlert ==
    /\ apc = "fetch"
    /\ aIn \in AlertInputs
    /\ aLoc = [pairs_to_analyze |-> <<>>, i |-> 1, found |-> NoCoins(aIn.kind),
               dicts |-> DictsOf(aIn.kind, aIn.alerted),
               file |-> [x \in Subs(aIn.kind) |->
                            FileOf(DictsOf(aIn.kind, aIn.alerted)[x])],
               batch |-> NoCoins(aIn.kind), tomark |-> <<>>, marked |-> <<>>,
               dispatched |-> FALSE, raised |-> FALSE, ret |-> NoCoins(aIn.kind)]
    /\ NoEval
    /\ NoEma
    /\ NoBatch
    /\ NoStore
    /\ NoScan
    /\ mainpc = "off"
    /\ config = <<>>
    /\ scanners = <<>>
    /\ scanner_threads = <<>>
    /\ nUpd = 0
    /\ resp = "none"
    /\ initErr = FALSE
    /\ NoSel
    /\ NoCycle

\* scan() up to its loop: the request of the tickers (the except block when
\* it raises), then the slices; EMAScanner raises on top_10_gainers[0] when
\* no pair passed the filter; VolumeScanner tests every pair.
AlertFetch ==
    /\ apc = "fetch"
    /\ IF aIn.fault = "fetch" \/ (aIn.kind = "ema" /\ aIn.pairs = <<>>)
       THEN /\ apc' = "except"
            /\ aLoc' = [aLoc EXCEPT !.raised = TRUE]
       ELSE /\ apc' = "evaluate"
            /\ aLoc' = [aLoc EXCEPT !.pairs_to_analyze =
                           IF aIn.kind = "volume" THEN aIn.pairs
                           ELSE pairs_to_analyze_of(aIn.pairs, aIn.top_n)]
    /\ UNCHANGED <<aIn, evalVars, emaVars, batchVars, storeVars, scanVars, appVars, selVars, cycleVars>>

\* The mutant of evaluate_pair used by the check of C37: the coin is
\* marked as it is appended.
evaluate_pair_marking(k, dicts, found, pair, cooldown_hours) ==
    LET Free(x) == x \in pair.near
                   /\ ~is_in_cooldown(k, dicts, x, pair.symbol, EvalNow, cooldown_hours)
    IN  [found |-> [x \in DOMAIN found |->
                       IF Free(x) THEN Append(found[x], pair) ELSE found[x]],
         dicts |-> [x \in DOMAIN dicts |->
                       IF Free(x) THEN DictSet(dicts[x], pair.symbol, EvalNow)
                       ELSE dicts[x]]]

\* The body of the loop for one pair: for each sub-kind whose test holds of
\* the pair, the pair is appended to the list of the sub-kind unless
\* is_in_cooldown; the dictionaries are read only.
evaluate_pair(k, dicts, found, pair, cooldown_hours) ==
    LET Free(x) == x \in pair.near
                   /\ ~is_in_cooldown(k, dicts, x, pair.symbol, EvalNow, cooldown_hours)
    IN  [found |-> [x \in DOMAIN found |->
                       IF Free(x) THEN Append(found[x], pair) ELSE found[x]],
         dicts |-> dicts]

\* for pair in pairs_to_analyze: one iteration.
AlertEvaluate ==
    /\ apc = "evaluate"
    /\ IF aLoc.i > Len(aLoc.pairs_to_analyze)
       THEN /\ apc' = "cut"
            /\ aLoc' = aLoc
       ELSE IF aIn.fault = "evaluate" /\ aLoc.i = Len(aLoc.pairs_to_analyze)
       THEN /\ apc' = "except"
            /\ aLoc' = [aLoc EXCEPT !.raised = TRUE]
       ELSE LET r == evaluate_pair(aIn.kind, aLoc.dicts, aLoc.found,
                                   aLoc.pairs_to_analyze[aLoc.i], aIn.cooldown_hours)
            IN  /\ apc' = "evaluate"
                /\ aLoc' = [aLoc EXCEPT !.found = r.found, !.dicts = r.dicts,
                                        !.i = @ + 1]
    /\ UNCHANGED <<aIn, evalVars, emaVars, batchVars, storeVars, scanVars, appVars, selVars, cycleVars>>

\* list.sort(key=change_pct): ascending, stable.
sort_ascending(l) == Reverse(sort_reverse(Reverse(l)))

\* The result of the cycle: found[:max_coins_per_alert] (EMAScanner), the
\* two lists cut (ATHATLScanner), the two lists sorted and cut
\* (VolumeScanner); DailyFlipScanner returns found as it is.
result_of(k, found, max_coins) ==
    CASE k = "ema" -> [x \in DOMAIN found |-> first_n(found[x], max_coins)]
      [] k = "flip" -> found
      [] k = "ath_atl" -> [x \in DOMAIN found |-> first_n(found[x], max_coins)]
      [] k = "volume" ->
           [x \in DOMAIN found |->
               IF x = "gainer" THEN first_n(sort_reverse(found[x]), max_coins)
               ELSE first_n(sort_ascending(found[x]), max_coins)]

\* "if found:", "if ath_coins or atl_coins:" on the result; VolumeScanner
\* asks "if gainers or losers:" of the lists before the cut.
has_alerts(k, found, batch) ==
    IF k = "volume" THEN \E x \in DOMAIN found : found[x] # <<>>
    ELSE \E x \in DOMAIN batch : batch[x] # <<>>

\* The dictionaries of a scanner class in the order scan() marks them.
SubOrder(k) ==
    CASE k = "ema" -> <<"ema">>
      [] k = "flip" -> <<"flip">>
      [] k = "volume" -> <<"gainer", "loser">>
      [] k = "ath_atl" -> <<"ath", "atl">>

\* The coins of the lists, one sub-kind after the other.
CoinsOf(k, lists) ==
    LET Keys(x) == [i \in 1..Len(lists[x]) |-> <<x, lists[x][i].symbol>>]
        order == SubOrder(k)
    IN  IF Len(order) = 1 THEN Keys(order[1])
        ELSE Keys(order[1]) \o Keys(order[2])

\* The mutant of coins_to_mark used by the check of C35: every coin found
\* is marked, cut or not.
coins_to_mark_uncut(k, found, batch) == CoinsOf(k, found)

\* "for coin in found: self.mark_alerted(coin['symbol'])", over the result.
coins_to_mark(k, found, batch) == CoinsOf(k, batch)

\* From the cut to "if found:".
AlertCut ==
    /\ apc = "cut"
    /\ LET batch == result_of(aIn.kind, aLoc.found, aIn.max_coins)
           coins == coins_to_mark(aIn.kind, aLoc.found, batch)
       IN  IF has_alerts(aIn.kind, aLoc.found, batch)
           THEN /\ apc' = IF coins = <<>> THEN "send" ELSE "mark"
                /\ aLoc' = [aLoc EXCEPT !.batch = batch, !.tomark = coins]
           ELSE /\ apc' = "return"
                /\ aLoc' = [aLoc EXCEPT !.batch = batch]
    /\ UNCHANGED <<aIn, evalVars, emaVars, batchVars, storeVars, scanVars, appVars, selVars, cycleVars>>

\* mark_alerted of one coin: the dictionary entry, then _save_cooldown.
AlertMark ==
    /\ apc = "mark"
    /\ LET coin == Head(aLoc.tomark)
           dicts == mark_alerted_set(aLoc.dicts, coin[1], coin[2], EvalNow)
           outcome == IF aIn.fault \in WriteOutcomes THEN aIn.fault ELSE "ok"
       IN  /\ aLoc' = [aLoc EXCEPT
                 !.dicts = dicts,
                 !.file = [@ EXCEPT ![coin[1]] =
                              _save_cooldown_write(@, _save_cooldown_data(dicts[coin[1]]),
                                                   outcome)],
                 !.marked = Append(@, coin),
                 !.tomark = Tail(@)]
           /\ apc' = IF Tail(aLoc.tomark) = <<>> THEN "send" ELSE "mark"
    /\ UNCHANGED <<aIn, evalVars, emaVars, batchVars, storeVars, scanVars, appVars, selVars, cycleVars>>

\* self.send_alert(found)
AlertSend ==
    /\ apc = "send"
    /\ apc' = "return"
    /\ aLoc' = [aLoc EXCEPT !.dispatched = TRUE]
    /\ UNCHANGED <<aIn, evalVars, emaVars, batchVars, storeVars, scanVars, appVars, selVars, cycleVars>>

\* scan(): "except Exception as e: ... return []" (return {})
AlertExcept ==
    /\ apc = "except"
    /\ apc' = "returned"
    /\ aLoc' = [aLoc EXCEPT !.ret = NoCoins(aIn.kind)]
    /\ UNCHANGED <<aIn, evalVars, emaVars, batchVars, storeVars, scanVars, appVars, selVars, cycleVars>>

\* scan(): return found (return result)
AlertReturn ==
    /\ apc = "return"
    /\ apc' = "returned"
    /\ aLoc' = [aLoc EXCEPT !.ret = aLoc.batch]
    /\ UNCHANGED <<aIn, evalVars, emaVars, batchVars, storeVars, scanVars, appVars, selVars, cycleVars>>

NextAlert ==
    \/ AlertFetch
    \/ AlertEvaluate
    \/ AlertCut
    \/ AlertMark
    \/ AlertSend
    \/ AlertExcept
    \/ AlertReturn

SpecAlert == InitAlert /\ [][NextAlert]_vars

\* C33: no batch handed to send_alert holds the same symbol twice for one
\* sub-kind.
C33_NoDuplicateInBatch ==
    (apc # "off" /\ aLoc.dispatched) =>
        \A x \in Subs(aIn.kind) : NoDuplicate(aLoc.batch[x])

\* C34: the batch handed to send_alert and returned holds at most the
\* configured maximum of coins per sub-kind, for every strategy.
C34_BatchCapped ==
    (apc # "off" /\ aLoc.dispatched) =>
        \A x \in Subs(aIn.kind) :
            /\ Len(aLoc.batch[x]) <= aIn.max_coins
            /\ apc = "returned" => Len(aLoc.ret[x]) <= aIn.max_coins

\* The keys of the batch handed to send_alert (none when nothing was).
BatchKeys ==
    IF aLoc.dispatched
    THEN UNION {{<<x, aLoc.batch[x][i].symbol>> : i \in 1..Len(aLoc.batch[x])} :
                   x \in Subs(aIn.kind)}
    ELSE {}

\* C35: when scan() has returned, the keys it recorded are the keys of the
\* batch it handed to send_alert: the dictionaries are those of the start
\* with the keys of the batch stamped now, and a coin found but cut off has
\* no stamp of this cycle and is not in cooldown.
C35_RecordedIsBatch ==
    apc = "returned" =>
        LET start == DictsOf(aIn.kind, aIn.alerted)
            Stamped(x) == {p[2] : p \in {q \in BatchKeys : q[1] = x}}
        IN  /\ {aLoc.marked[i] : i \in 1..Len(aLoc.marked)} = BatchKeys
            /\ aLoc.dicts =
                 [x \in Subs(aIn.kind) |->
                     [y \in DOMAIN start[x] \cup Stamped(x) |->
                         IF y \in Stamped(x) THEN EvalNow ELSE start[x][y]]]
            /\ \A x \in Subs(aIn.kind) : \A i \in 1..Len(aLoc.found[x]) :
                 LET symbol == aLoc.found[x][i].symbol
                 IN  <<x, symbol>> \notin BatchKeys =>
                        ~is_in_cooldown(aIn.kind, aLoc.dicts, x, symbol, EvalNow,
                                        aIn.cooldown_hours)

\* C35's case: a coin that was found was cut off the batch that was
\* handed to send_alert.
C35_Witness ==
    /\ apc = "returned"
    /\ aLoc.dispatched
    /\ \E x \in Subs(aIn.kind) : \E i \in 1..Len(aLoc.found[x]) :
          <<x, aLoc.found[x][i].symbol>> \notin BatchKeys

\* C37: nothing is recorded before the loop over the pairs has ended: up to
\* the cut, and in a cycle that ended in the except block of scan(), the
\* dictionaries and the files are those of the start, nothing was marked or
\* handed to send_alert, and the result of an aborted cycle is empty.
C37_StoreUntouchedBeforeCut ==
    (apc \in {"fetch", "evaluate", "cut", "except"} \/ (apc # "off" /\ aLoc.raised)) =>
        /\ aLoc.dicts = DictsOf(aIn.kind, aIn.alerted)
        /\ aLoc.file = [x \in Subs(aIn.kind) |->
                           FileOf(DictsOf(aIn.kind, aIn.alerted)[x])]
        /\ aLoc.marked = <<>>
        /\ ~aLoc.dispatched
        /\ apc = "returned" => aLoc.ret = NoCoins(aIn.kind)

\* C37's case: the loop had found a coin when it raised, and scan() has
\* returned from its except block.
C37_Witness ==
    /\ apc = "returned"
    /\ aLoc.raised
    /\ aIn.fault = "evaluate"
    /\ \E x \in Subs(aIn.kind) : aLoc.found[x] # <<>>

\* C36: whenever no write is under way and no write has failed, the cooldown
\* file holds, for every key recorded since the start, the instant it was
\* last recorded at.
C36_NoRecordLost ==
    (unsaved = {} /\ \A t \in Threads : th[t].pc # "write") =>
        \A k \in DOMAIN recorded[TheSub] :
            /\ k \in DOMAIN durable[TheSub]
            /\ durable[TheSub][k] = recorded[TheSub][k]

\* C38: while the strategy's configuration says it is disabled, no cycle,
\* timed or manual, gets as far as the request of the tickers (so nothing is
\* fetched, marked, written or sent by it), and the timed loop goes from its
\* check of the flag to its sleep.
C38_DisabledCycleNoEffect ==
    [][cfgSect = "off" =>
          /\ \A t \in Threads :
                th[t].pc \in {"check", "idle"} => th'[t].pc # "fetch"
          /\ th["timed"].pc = "check" /\ th'["timed"] # th["timed"] =>
                th'["timed"].pc = "sleep"]_vars

\* =============================================================== SpecStart
\* The strategy from the start of the process, enabled or disabled in the
\* configuration that start_scanners reads, under update_config calls and
\* the clock: start_scanners has started the run_scanner thread only for an
\* enabled strategy, and update_config starts none.

InitStart ==
    /\ InitStrategy
    /\ left = [t \in Threads |-> IF t = "timed" THEN -1 ELSE 0]

SpecStart == InitStart /\ [][NextLoop]_vars

\* A started thread is scheduled, its requests time out and time.sleep
\* returns.
FairStart == SpecStart /\ WF_vars(TimedStep)

\* C39: a strategy that the configuration updates leave enabled runs timed
\* cycles again and again, whether it was enabled or disabled when the
\* process started.
C39_EnabledEventuallyRuns ==
    <>[](cfgSect = "on") => []<>(th["timed"].pc = "fetch")

====
